---- MODULE Spec2Model ----
(***************************************************************************)
(* A state-machine model of the Socket.IO presence and messaging hub of    *)
(* src/src/sockets/index.ts (initSocket): the participant registry         *)
(* (connectedUsers), the session directory (trackingSessions), the typing  *)
(* timers (typingUsers), the health map (connectionHealth), the            *)
(* reconnection buffers (messageBuffer), the Socket.IO rooms each socket   *)
(* has joined, the per-socket throttle closures, the pending timers, the   *)
(* heartbeat of monitorConnection and the process with gracefulShutdown.   *)
(*                                                                         *)
(* Conventions.                                                            *)
(*  - A JavaScript Map is a function whose DOMAIN is the set of its keys.  *)
(*  - An optional value (undefined / null) is a sequence of length 0 or 1. *)
(*  - A JavaScript string is [isString |-> TRUE, chars |-> <<...>>]; a     *)
(*    payload field that is not a string has isString = FALSE.             *)
(*  - Date.now() is the variable now (milliseconds); a handler reads it    *)
(*    and never advances it. A timer may fire once now >= its due time:    *)
(*    Node runs a timer callback no earlier than its delay.                *)
(*  - closing.io lists the pending callbacks of io.close(cb), each by the  *)
(*    handle of the closeTimeout it clears; closing.server counts the      *)
(*    pending callbacks of server.close(cb). proc is "running" until       *)
(*    process.exit, then "exited0" or "exited1" and nothing runs any more. *)
(*  - out is the list of events the last handler emitted, each with the    *)
(*    set of sockets that receive it; lastOp names the last handler run    *)
(*    and its socket. Neither is read by any handler.                      *)
(*  - sentTrail, lastAcceptedAt, owed, lastSentAt, statusSet, gotLive and  *)
(*    pongsReceived record what has happened so far; no handler reads      *)
(*    them either.                                                         *)
(*  - ISO timestamps put into chat messages and trail points are not       *)
(*    modelled (no handler reads them); a chat message is identified by    *)
(*    its generated id, a trail point by its coordinates.                  *)
(***************************************************************************)
EXTENDS Integers, Sequences, FiniteSets, TLC

\* ------------------------------------------------------------ bounds
\* Date.now() when the server starts (any value >= the throttle windows).
StartTime == 1000000
\* Clock steps in one run of the registry and hub specifications.
MaxTicks == 1
\* Chat messages accepted in one run of the registry specification.
MaxMsgs == 2
\* typing-start events handled in one run.
MaxTypingStarts == 1
\* Clock steps in one run of the location specification.
MaxLocTicks == 62
\* Chat messages accepted in one run of the buffer specification.
MaxBufMsgs == 102
\* typing-start events and clock steps in one run of the typing specification.
MaxTypingBurst == 3
MaxTypTicks == 8
MaxPingRounds == 4
MaxShutdownCalls == 2
MaxPongs == 4

\* ------------------------------------------------- program constants
locationUpdateThrottle == 1000
messageRateLimit == 500
TypingTimeoutMs == 3000
TrailCap == 30
BufferTrimAbove == 100
BufferKeep == 50
MaxMessageLength == 1000
\* Mutant: the grace period is one minute.
GraceMsShort == 60 * 1000

GraceMs == 5 * 60 * 1000
InitialPingInterval == 30000
PingTimeoutMs == 15000
MinPingInterval == 15000
MaxPingInterval == 60000
staleThreshold == 10 * 60 * 1000

\* The sockets (transport-assigned connection ids) of a run.
Conns == {"c1", "c2"}

JoinRoles == {"admin", "supervisor", "worker", "new"}
DefaultSession == "tracking-users"
Statuses == {"online", "away", "offline"}

\* ------------------------------------------------------------ values
None == <<>>
Some(v) == <<v>>

Str(cs) == [isString |-> TRUE, chars |-> cs]
NotAString == [isString |-> FALSE, chars |-> <<>>]

\* ------------------------------------------------------ Map helpers
MapHas(m, k) == k \in DOMAIN m
MapSet(m, k, v) == [x \in (DOMAIN m) \cup {k} |-> IF x = k THEN v ELSE m[x]]
MapDelete(m, k) == [x \in (DOMAIN m) \ {k} |-> m[x]]
EmptyMap == [x \in {} |-> 0]
MapValues(m) == {m[k] : k \in DOMAIN m}

\* ---------------------------------------------------- String helpers
IsSpace(ch) == ch = " "

RECURSIVE TrimStart(_)
TrimStart(cs) ==
    IF cs # <<>> /\ IsSpace(Head(cs)) THEN TrimStart(Tail(cs)) ELSE cs

RECURSIVE TrimEnd(_)
TrimEnd(cs) ==
    IF cs # <<>> /\ IsSpace(cs[Len(cs)])
    THEN TrimEnd(SubSeq(cs, 1, Len(cs) - 1))
    ELSE cs

\* String.prototype.trim
Trim(cs) == TrimEnd(TrimStart(cs))

\* Mutant: the slice starts one element too early.
SliceLastOneMore(s, n) ==
    IF Len(s) <= n THEN s ELSE SubSeq(s, Len(s) - n, Len(s))

\* Array.prototype.slice(-n)
SliceLast(s, n) == IF Len(s) <= n THEN s ELSE SubSeq(s, Len(s) - n + 1, Len(s))

VARIABLES
    now,                \* Date.now()
    conn,               \* socket -> "none" | "connected" | "disconnected"
    connectedUsers,     \* Map<string, User>
    trackingSessions,   \* Map<string, Set<string>>
    typingUsers,        \* Map<string, NodeJS.Timeout> (the timer's handle)
    connectionHealth,   \* Map<string, ConnectionHealth>
    messageBuffer,      \* Map<string, any[]>
    rooms,              \* socket -> the Socket.IO rooms it is in
    lastLocationUpdate, \* per-socket closure variable
    lastMessageTime,    \* per-socket closure variable
    timers,             \* pending setTimeout callbacks
    msgCount,           \* chat messages accepted so far (generateUserId)
    typingStarts,       \* typing-start events handled so far
    sentTrail,          \* socket -> the trail points accepted since its join
    lastAcceptedAt,     \* socket -> when its last location update was accepted
    owed,               \* socket -> the messages accepted since it became a
                        \* session member without a registry record
    lastSentAt,         \* socket -> when its last chat message was accepted
    statusSet,          \* socket -> the status its participant last set with
                        \* status-update since its join
    gotLive,            \* socket -> ids of the messages sent to it as new-message
    pongsReceived,      \* socket -> the pong events it has sent so far
    pingIntervalTime,   \* per-socket closure variable of monitorConnection
    pingInterval,       \* socket -> its setInterval: next firing and period
    pongListeners,      \* socket -> its socket.once("pong") listeners, in order
    proc,               \* "running" | "exited0" | "exited1" (process.exit)
    closing,            \* progress of gracefulShutdown's io.close / server.close
    out,                \* events emitted by the last handler
    lastOp              \* the last handler run and its payload

vars == <<now, conn, connectedUsers, trackingSessions, typingUsers,
          connectionHealth, messageBuffer, rooms, lastLocationUpdate,
          lastMessageTime, timers, msgCount, typingStarts, sentTrail,
          lastAcceptedAt, owed, lastSentAt, statusSet, gotLive, pongsReceived, pingIntervalTime, pingInterval,
          pongListeners, proc, closing, out, lastOp>>

\* The heartbeat of monitorConnection.
heartbeat == <<pingIntervalTime, pingInterval, pongListeners>>

\* The process and its shutdown.
process == <<proc, closing>>

\* The process has not exited: its handlers and timers still run.
Alive == proc = "running"

\* The server's maps and per-socket closures, without the clock and the
\* observation variables.
store == <<connectedUsers, trackingSessions, typingUsers, connectionHealth,
           messageBuffer, rooms, lastLocationUpdate, lastMessageTime, timers>>

\* -------------------------------------------------------- emissions
\* `tracking-${sessionId}`
Room(sid) == <<"tracking-", sid>>

InRoom(r) == {c \in Conns : r \in rooms[c]}

Emit(ev, to, data) == [ev |-> ev, to |-> to, data |-> data]

\* socket.emit(ev, data)
ToSocket(c, ev, data) == Emit(ev, {c}, data)
\* socket.to(room).emit(ev, data): the room without the sender
ToOthers(c, rms, sid, ev, data) ==
    Emit(ev, {x \in Conns : Room(sid) \in rms[x]} \ {c}, data)
\* io.to(room).emit(ev, data)
ToRoom(rms, sid, ev, data) ==
    Emit(ev, {x \in Conns : Room(sid) \in rms[x]}, data)

ErrorEvent(c, message, code) ==
    ToSocket(c, "error", [message |-> message, code |-> code])

Op(name, c) == [op |-> name, c |-> c]

\* ----------------------------------------------------------- timers
\* A handle not used by a pending timer (setTimeout's return value).
NewHandle(ts) == CHOOSE h \in 0..Cardinality(ts) : \A t \in ts : t.h # h

\* setTimeout(callback, delay) with the timers ts pending
Timer(ts, kind, c, delay) ==
    [kind |-> kind, c |-> c, due |-> now + delay, h |-> NewHandle(ts)]

\* clearTimeout(handle)
\* Mutant: clearTimeout is missing.
ClearNothing(ts, h) == ts

ClearTimeout(ts, h) == {t \in ts : t.h # h}

\* ------------------------------------------------------------- Init
Init ==
    /\ now = StartTime
    /\ conn = [c \in Conns |-> "none"]
    /\ connectedUsers = EmptyMap
    /\ trackingSessions = EmptyMap
    /\ typingUsers = EmptyMap
    /\ connectionHealth = EmptyMap
    /\ messageBuffer = EmptyMap
    /\ rooms = [c \in Conns |-> {}]
    /\ lastLocationUpdate = [c \in Conns |-> 0]
    /\ lastMessageTime = [c \in Conns |-> 0]
    /\ timers = {}
    /\ msgCount = 0
    /\ typingStarts = 0
    /\ sentTrail = [c \in Conns |-> <<>>]
    /\ lastAcceptedAt = [c \in Conns |-> None]
    /\ owed = [c \in Conns |-> <<>>]
    /\ lastSentAt = [c \in Conns |-> None]
    /\ statusSet = [c \in Conns |-> None]
    /\ gotLive = [c \in Conns |-> {}]
    /\ pongsReceived = [c \in Conns |-> 0]
    /\ pingIntervalTime = [c \in Conns |-> InitialPingInterval]
    /\ pingInterval = [c \in Conns |-> None]
    /\ pongListeners = [c \in Conns |-> <<>>]
    /\ proc = "running"
    /\ closing = [io |-> <<>>, server |-> 0]
    /\ out = <<>>
    /\ lastOp = Op("init", "")

\* ---------------------------------------------------------- connect
\* monitorConnection: the health record of a fresh socket.
NewHealth ==
    [connectedAt |-> now, lastPing |-> now, pingCount |-> 0,
     reconnectCount |-> 0, isHealthy |-> TRUE, latency |-> None]

\* setInterval(callback, period): the period is the value passed when the
\* interval is created.
SetInterval(period) == Some([due |-> now + period, period |-> period])

\* io.on("connection"): a socket is accepted.
Connect(c) ==
    /\ conn[c] = "none"
    /\ conn' = [conn EXCEPT ![c] = "connected"]
    /\ connectionHealth' = MapSet(connectionHealth, c, NewHealth)
    /\ out' = <<ToSocket(c, "connection-confirmed", c)>>
    /\ lastOp' = Op("connect", c)
    /\ Alive
    /\ UNCHANGED <<lastSentAt, statusSet, gotLive, pongsReceived, pongListeners, process>>
    /\ pingIntervalTime' = [pingIntervalTime EXCEPT ![c] = InitialPingInterval]
    /\ pingInterval' = [pingInterval EXCEPT ![c] = SetInterval(pingIntervalTime'[c])]
    /\ UNCHANGED <<sentTrail, lastAcceptedAt, owed>>
    /\ UNCHANGED typingStarts
    /\ UNCHANGED <<now, connectedUsers, trackingSessions, typingUsers,
                   messageBuffer, rooms, lastLocationUpdate, lastMessageTime,
                   timers, msgCount>>

\* -------------------------------------------------------- heartbeat
Min(a, b) == IF a < b THEN a ELSE b
Max(a, b) == IF a > b THEN a ELSE b

\* The handle of the setTimeout started by the ping that socket c is sent
\* at a time: a number no other timer has (the first ping is sent 30 seconds after
\* the connection; the other handles are above -60000).
PingHandleAt(c, time) ==
    0 - (Cardinality(Conns) * (time - StartTime + 1)
         + Cardinality({k \in Conns : k = "c1" /\ c # "c1"}))

PingHandle(c) == PingHandleAt(c, now)

\* setInterval keeps the period it was created with.
NextPingPeriod(c) == pingInterval[c][1].period

\* The setInterval callback of monitorConnection: a ping is sent, a timeout
\* of 15 seconds is started and a pong listener is added (socket.once).
Ping(c, until) ==
    /\ Alive
    /\ pingInterval[c] # None
    /\ now >= pingInterval[c][1].due
    /\ now < StartTime + until
    /\ lastOp' = Op("ping", c)
    /\ pingInterval' =
          [pingInterval EXCEPT
              ![c] = Some([due |-> now + NextPingPeriod(c),
                           period |-> NextPingPeriod(c)])]
    /\ IF conn[c] = "connected"
       THEN LET timeout == [kind |-> "pingTimeout", c |-> c,
                            due |-> now + PingTimeoutMs, h |-> PingHandle(c)]
            IN /\ timers' = timers \cup {timeout}
               /\ pongListeners' =
                     [pongListeners EXCEPT
                         ![c] = Append(@, [startTime |-> now, h |-> timeout.h])]
               /\ out' = <<ToSocket(c, "ping", now)>>
       ELSE /\ out' = <<>>
            /\ UNCHANGED <<timers, pongListeners>>
    /\ UNCHANGED <<now, conn, connectedUsers, trackingSessions, typingUsers,
                   connectionHealth, messageBuffer, rooms, lastLocationUpdate,
                   lastMessageTime, msgCount, typingStarts, sentTrail,
                   lastAcceptedAt, owed, lastSentAt, statusSet, gotLive, pongsReceived, pingIntervalTime, process>>

\* pingIntervalTime = Math.max(15000, pingIntervalTime - 5000)
AfterTimeout(interval) == Max(MinPingInterval, interval - 5000)

\* Mutant: the timeout counts two reconnects.
MarkUnhealthyTwice(health) ==
    [health EXCEPT !.isHealthy = FALSE, !.reconnectCount = @ + 2]

\* health.isHealthy = false; health.reconnectCount++
MarkUnhealthy(health) ==
    [health EXCEPT !.isHealthy = FALSE, !.reconnectCount = @ + 1]

\* The 15-second timeout of a ping that no listener has cleared.
PingTimeout(t) ==
    /\ Alive
    /\ t \in timers
    /\ t.kind = "pingTimeout"
    /\ now >= t.due
    /\ lastOp' = Op("ping-timeout", t.c)
    /\ timers' = timers \ {t}
    /\ out' = <<>>
    /\ IF MapHas(connectionHealth, t.c)
       THEN /\ connectionHealth' =
                  MapSet(connectionHealth, t.c,
                         MarkUnhealthy(connectionHealth[t.c]))
            /\ pingIntervalTime' =
                  [pingIntervalTime EXCEPT ![t.c] = AfterTimeout(@)]
       ELSE UNCHANGED <<connectionHealth, pingIntervalTime>>
    /\ UNCHANGED <<now, conn, connectedUsers, trackingSessions, typingUsers,
                   messageBuffer, rooms, lastLocationUpdate, lastMessageTime,
                   msgCount, typingStarts, sentTrail, lastAcceptedAt, owed,
                   lastSentAt, statusSet, gotLive, pongsReceived, pingInterval, pongListeners, process>>

\* The interval after a pong listener measured this latency.
AfterPong(interval, latency) ==
    IF latency < 100 THEN Min(MaxPingInterval, interval + 5000)
    ELSE IF latency > 1000 THEN Max(MinPingInterval, interval - 2000)
    ELSE interval

\* The pong listeners run in the order they were added; each clears its own
\* timeout and, when the health record exists, updates it and adapts the
\* interval from the latency it measures against its own ping.
RECURSIVE RunPongListeners(_, _)
RunPongListeners(listeners, st) ==
    IF listeners = <<>> THEN st
    ELSE LET l == Head(listeners)
             latency == now - l.startTime
         IN RunPongListeners(
                Tail(listeners),
                [timers |-> ClearTimeout(st.timers, l.h),
                 health |-> IF st.health = None THEN None
                            ELSE Some([st.health[1] EXCEPT
                                          !.lastPing = now,
                                          !.pingCount = @ + 1,
                                          !.isHealthy = TRUE,
                                          !.latency = Some(latency)]),
                 interval |-> IF st.health = None THEN st.interval
                              ELSE AfterPong(st.interval, latency)])

\* The client emits "pong": every listener added by socket.once("pong")
\* since the last pong runs, and all of them are removed.
Pong(c) ==
    /\ Alive
    /\ conn[c] = "connected"
    /\ lastOp' = Op("pong", c)
    /\ out' = <<>>
    /\ LET st == RunPongListeners(
                     pongListeners[c],
                     [timers |-> timers,
                      health |-> IF MapHas(connectionHealth, c)
                                 THEN Some(connectionHealth[c]) ELSE None,
                      interval |-> pingIntervalTime[c]])
       IN /\ timers' = st.timers
          /\ connectionHealth' =
                IF st.health = None THEN connectionHealth
                ELSE MapSet(connectionHealth, c, st.health[1])
          /\ pingIntervalTime' = [pingIntervalTime EXCEPT ![c] = st.interval]
    /\ pongListeners' = [pongListeners EXCEPT ![c] = <<>>]
    /\ UNCHANGED <<now, conn, connectedUsers, trackingSessions, typingUsers,
                   messageBuffer, rooms, lastLocationUpdate, lastMessageTime,
                   msgCount, typingStarts, sentTrail, lastAcceptedAt, owed,
                   lastSentAt, statusSet, gotLive, pingInterval, process>>
    /\ pongsReceived' = [pongsReceived EXCEPT ![c] = @ + 1]

\* ------------------------------------------------------------- join
\* !name || typeof name !== "string" || name.trim().length === 0
InvalidName(name) ==
    \/ ~name.isString
    \/ name.chars = <<>>
    \/ Trim(name.chars) = <<>>

\* Mutant: the duplicate check looks only at participants still connected.
isAlreadyJoinedLiveOnly(users, trimmedName, sid) ==
    \E u \in MapValues(users) :
        u.name = trimmedName /\ u.sessionId = sid /\ conn[u.id] = "connected"

\* Array.from(connectedUsers.values()).some(user => user.name === trimmedName
\*                                              && user.sessionId === sid)
isAlreadyJoined(users, trimmedName, sid) ==
    \E u \in MapValues(users) : u.name = trimmedName /\ u.sessionId = sid

\* sessionId || "tracking-users"
SessionOf(sessionId) == IF sessionId = None THEN DefaultSession ELSE sessionId[1]

\* The User record a successful join stores (location || null, ...).
NewUser(c, trimmedName, role, sid, location) ==
    [id |-> c, name |-> trimmedName, role |-> role, sessionId |-> sid,
     joinedAt |-> now, lastSeen |-> now, status |-> "online",
     location |-> location, accuracy |-> None, speed |-> None,
     heading |-> None, trail |-> <<>>, isTyping |-> FALSE,
     connectionHealth |-> MapHas(connectionHealth, c)]

\* Mutant: the roster is not filtered by session.
roomUsersUnfiltered(users, sid) == MapValues(users)

\* Array.from(connectedUsers.values()).filter(u => u.sessionId === sid)
roomUsers(users, sid) == {u \in MapValues(users) : u.sessionId = sid}

\* Mutant: a newly created session set is stored without the joiner.
SessionAddForgetsFirst(sessions, sid, c) ==
    IF MapHas(sessions, sid) THEN MapSet(sessions, sid, sessions[sid] \cup {c})
    ELSE MapSet(sessions, sid, {})

\* trackingSessions.get(sid).add(id), creating the set when it is missing
SessionAdd(sessions, sid, c) ==
    MapSet(sessions, sid, (IF MapHas(sessions, sid) THEN sessions[sid] ELSE {}) \cup {c})

\* An early return of a handler that only reports an error to the sender.
Reject(c, message, code) ==
    /\ out' = <<ErrorEvent(c, message, code)>>
    /\ UNCHANGED <<now, conn, connectedUsers, trackingSessions, typingUsers,
                   connectionHealth, messageBuffer, rooms, timers, msgCount,
                   sentTrail, lastAcceptedAt, owed, lastSentAt, statusSet, gotLive, pongsReceived>>

\* socket.on("join-tracking")
Join(c, data) ==
    /\ conn[c] = "connected"
    /\ lastOp' = Op("join", c)
    /\ Alive
    /\ UNCHANGED <<lastSentAt, gotLive, pongsReceived, heartbeat, process>>
    /\ UNCHANGED typingStarts
    /\ UNCHANGED <<lastLocationUpdate, lastMessageTime>>
    /\ IF ~data.defined
       THEN Reject(c, "Failed to join tracking session", "JOIN_ERROR")
       ELSE IF InvalidName(data.name)
       THEN Reject(c, "Invalid name provided", "")
       ELSE IF data.role \notin JoinRoles
       THEN Reject(c, "Invalid role provided", "")
       ELSE
         LET trimmedName == Trim(data.name.chars)
             sid == SessionOf(data.sessionId)
         IN IF isAlreadyJoined(connectedUsers, trimmedName, sid)
            THEN Reject(c, "User already joined the session", "")
            ELSE
              LET userData == NewUser(c, trimmedName, data.role, sid, data.location)
                  users2 == MapSet(connectedUsers, c, userData)
                  rooms2 == [rooms EXCEPT ![c] = @ \cup {Room(sid)}]
                  roster == roomUsers(users2, sid)
                  bufferedMessages ==
                      IF MapHas(messageBuffer, c) THEN messageBuffer[c] ELSE <<>>
              IN /\ connectedUsers' = users2
                 /\ trackingSessions' = SessionAdd(trackingSessions, sid, c)
                 /\ rooms' = rooms2
                 /\ messageBuffer' =
                        IF Len(bufferedMessages) > 0
                        THEN MapDelete(messageBuffer, c)
                        ELSE messageBuffer
                 /\ out' = <<ToOthers(c, rooms2, sid, "user-joined", userData),
                             ToSocket(c, "users-list", roster)>>
                            \o (IF Len(bufferedMessages) > 0
                                THEN <<ToSocket(c, "buffered-messages", bufferedMessages)>>
                                ELSE <<>>)
                            \o <<ToRoom(rooms2, sid, "user-count", Cardinality(roster))>>
                 /\ sentTrail' = [sentTrail EXCEPT ![c] = <<>>]
                 /\ owed' = [owed EXCEPT ![c] = <<>>]
                 /\ UNCHANGED <<now, conn, typingUsers, connectionHealth,
                                timers, msgCount, lastAcceptedAt>>
    /\ statusSet' = IF out'[1].ev = "user-joined"
                     THEN [statusSet EXCEPT ![c] = None]
                     ELSE statusSet

\* ------------------------------------------------------- disconnect
\* Mutant: the session stays in the directory when its last member leaves.
SessionRemoveKeepsEmpty(sessions, sid, c) ==
    IF ~MapHas(sessions, sid) THEN sessions
    ELSE MapSet(sessions, sid, sessions[sid] \ {c})

\* sessionUsers.delete(id); the session is deleted when it becomes empty
SessionRemove(sessions, sid, c) ==
    IF ~MapHas(sessions, sid) THEN sessions
    ELSE IF sessions[sid] \ {c} = {} THEN MapDelete(sessions, sid)
    ELSE MapSet(sessions, sid, sessions[sid] \ {c})

\* Array.from(connectedUsers.values()).filter(
\*     u => u.sessionId === user.sessionId && u.id !== socket.id)
remainingUsers(users, sid, c) ==
    {u \in MapValues(users) : u.sessionId = sid /\ u.id # c}

\* socket.on("disconnect"): both listeners, monitorConnection's first. The
\* socket has left its rooms when they run.
Disconnect(c) ==
    /\ conn[c] = "connected"
    /\ conn' = [conn EXCEPT ![c] = "disconnected"]
    /\ lastOp' = Op("disconnect", c)
    /\ Alive
    /\ UNCHANGED <<lastSentAt, statusSet, gotLive, pongsReceived, pingIntervalTime, pongListeners, process>>
    /\ pingInterval' = [pingInterval EXCEPT ![c] = None]
    /\ UNCHANGED <<sentTrail, lastAcceptedAt, owed>>
    /\ UNCHANGED typingStarts
    /\ connectionHealth' = MapDelete(connectionHealth, c)
    /\ LET rooms2 == [rooms EXCEPT ![c] = {}]
       IN /\ rooms' = rooms2
          /\ IF MapHas(connectedUsers, c)
             THEN LET user == connectedUsers[c]
                      ts1 == IF MapHas(typingUsers, c)
                             THEN ClearTimeout(timers, typingUsers[c])
                             ELSE timers
                  IN /\ typingUsers' = MapDelete(typingUsers, c)
                     /\ trackingSessions' =
                            SessionRemove(trackingSessions, user.sessionId, c)
                     /\ out' = <<ToOthers(c, rooms2, user.sessionId, "user-left", c),
                                 ToRoom(rooms2, user.sessionId, "user-count",
                                        Cardinality(remainingUsers(connectedUsers,
                                                                   user.sessionId, c)))>>
                     /\ timers' = ts1 \cup {Timer(ts1, "grace", c, GraceMs)}
             ELSE /\ out' = <<>>
                  /\ UNCHANGED <<typingUsers, trackingSessions, timers>>
    /\ UNCHANGED <<now, connectedUsers, messageBuffer, lastLocationUpdate,
                   lastMessageTime, msgCount>>

\* The setTimeout callback of the disconnect handler, 5 minutes later.
GraceExpire(t) ==
    /\ t \in timers
    /\ t.kind = "grace"
    /\ now >= t.due
    /\ timers' = timers \ {t}
    /\ connectedUsers' = MapDelete(connectedUsers, t.c)
    /\ messageBuffer' = MapDelete(messageBuffer, t.c)
    /\ out' = <<>>
    /\ lastOp' = Op("grace", t.c)
    /\ Alive
    /\ UNCHANGED <<lastSentAt, statusSet, gotLive, pongsReceived, heartbeat, process>>
    /\ UNCHANGED <<sentTrail, lastAcceptedAt, owed>>
    /\ UNCHANGED typingStarts
    /\ UNCHANGED <<now, conn, trackingSessions, typingUsers, connectionHealth,
                   rooms, lastLocationUpdate, lastMessageTime, msgCount>>

\* ---------------------------------------------------------- cleanup
\* now - health.lastPing > staleThreshold
IsStale(health) == now - health.lastPing > staleThreshold

StaleSockets == {k \in DOMAIN connectionHealth : IsStale(connectionHealth[k])}

\* Mutant: the trim keeps the oldest messages instead of the newest.
TrimBufferKeepOldest(messages) ==
    IF Len(messages) > BufferTrimAbove THEN SubSeq(messages, 1, BufferKeep)
    ELSE messages

\* messages.length > 100 ? messages.slice(-50) : messages
TrimBuffer(messages) ==
    IF Len(messages) > BufferTrimAbove THEN SliceLast(messages, BufferKeep)
    ELSE messages

\* performCleanup, run by setInterval every 2 minutes and by logServerHealth
performCleanup ==
    /\ connectionHealth' = [k \in (DOMAIN connectionHealth) \ StaleSockets |->
                               connectionHealth[k]]
    /\ connectedUsers' = [k \in (DOMAIN connectedUsers) \ StaleSockets |->
                             connectedUsers[k]]
    /\ typingUsers' = [k \in (DOMAIN typingUsers) \ StaleSockets |->
                          typingUsers[k]]
    /\ trackingSessions' = [s \in {x \in DOMAIN trackingSessions :
                                      trackingSessions[x] # {}} |->
                               trackingSessions[s]]
    /\ messageBuffer' = [k \in DOMAIN messageBuffer |-> TrimBuffer(messageBuffer[k])]
    /\ out' = <<>>
    /\ lastOp' = Op("cleanup", "")
    /\ Alive
    /\ UNCHANGED <<lastSentAt, statusSet, gotLive, pongsReceived, heartbeat, process>>
    /\ UNCHANGED <<sentTrail, lastAcceptedAt, owed>>
    /\ UNCHANGED typingStarts
    /\ UNCHANGED <<now, conn, rooms, lastLocationUpdate, lastMessageTime,
                   timers, msgCount>>

\* ------------------------------------------------------------ clock
\* Time passes: d milliseconds, no later than limit after the start.
Tick(d, limit) ==
    /\ now + d <= StartTime + limit
    /\ now' = now + d
    /\ out' = <<>>
    /\ lastOp' = Op("tick", "")
    /\ Alive
    /\ UNCHANGED <<lastSentAt, statusSet, gotLive, pongsReceived, heartbeat, process>>
    /\ UNCHANGED <<sentTrail, lastAcceptedAt, owed>>
    /\ UNCHANGED typingStarts
    /\ UNCHANGED <<conn, connectedUsers, trackingSessions, typingUsers,
                   connectionHealth, messageBuffer, rooms, lastLocationUpdate,
                   lastMessageTime, timers, msgCount>>

\* ----------------------------------------------------------- typing
\* The user-typing payload.
TypingPayload(user, isTyping) ==
    [userId |-> user.id, userName |-> user.name, isTyping |-> isTyping]

\* socket.on("typing-start")
TypingStart(c, limit) ==
    /\ conn[c] = "connected"
    /\ lastOp' = Op("typing-start", c)
    /\ Alive
    /\ UNCHANGED <<lastSentAt, statusSet, gotLive, pongsReceived, heartbeat, process>>
    /\ UNCHANGED <<sentTrail, lastAcceptedAt, owed>>
    /\ typingStarts < limit
    /\ typingStarts' = typingStarts + 1
    /\ IF ~MapHas(connectedUsers, c)
       THEN /\ out' = <<>>
            /\ UNCHANGED <<connectedUsers, typingUsers, timers>>
       ELSE LET user == [connectedUsers[c] EXCEPT !.isTyping = TRUE]
                ts1 == IF MapHas(typingUsers, c)
                       THEN ClearTimeout(timers, typingUsers[c])
                       ELSE timers
                timeout == Timer(ts1, "typing", c, TypingTimeoutMs)
            IN /\ connectedUsers' = MapSet(connectedUsers, c, user)
               /\ out' = <<ToOthers(c, rooms, user.sessionId, "user-typing",
                                    TypingPayload(user, TRUE))>>
               /\ timers' = ts1 \cup {timeout}
               /\ typingUsers' = MapSet(typingUsers, c, timeout.h)
    /\ UNCHANGED <<now, conn, trackingSessions, connectionHealth, messageBuffer,
                   rooms, lastLocationUpdate, lastMessageTime, msgCount>>

\* The setTimeout callback of typing-start, 3 seconds later.
TypingExpire(t) ==
    /\ t \in timers
    /\ t.kind = "typing"
    /\ now >= t.due
    /\ timers' = timers \ {t}
    /\ lastOp' = Op("typing-expire", t.c)
    /\ Alive
    /\ UNCHANGED <<lastSentAt, statusSet, gotLive, pongsReceived, heartbeat, process>>
    /\ UNCHANGED <<sentTrail, lastAcceptedAt, owed>>
    /\ UNCHANGED typingStarts
    /\ IF MapHas(connectedUsers, t.c) /\ connectedUsers[t.c].isTyping
       THEN LET currentUser == [connectedUsers[t.c] EXCEPT !.isTyping = FALSE]
            IN /\ connectedUsers' = MapSet(connectedUsers, t.c, currentUser)
               /\ out' = <<ToOthers(t.c, rooms, currentUser.sessionId, "user-typing",
                                    TypingPayload(currentUser, FALSE))>>
       ELSE /\ out' = <<>>
            /\ UNCHANGED connectedUsers
    /\ typingUsers' = MapDelete(typingUsers, t.c)
    /\ UNCHANGED <<now, conn, trackingSessions, connectionHealth, messageBuffer,
                   rooms, lastLocationUpdate, lastMessageTime, msgCount>>

\* socket.on("typing-stop")
TypingStop(c) ==
    /\ conn[c] = "connected"
    /\ lastOp' = Op("typing-stop", c)
    /\ Alive
    /\ UNCHANGED <<lastSentAt, statusSet, gotLive, pongsReceived, heartbeat, process>>
    /\ UNCHANGED <<sentTrail, lastAcceptedAt, owed>>
    /\ UNCHANGED typingStarts
    /\ IF ~MapHas(connectedUsers, c)
       THEN /\ out' = <<>>
            /\ UNCHANGED <<connectedUsers, typingUsers, timers>>
       ELSE LET user == [connectedUsers[c] EXCEPT !.isTyping = FALSE]
            IN /\ connectedUsers' = MapSet(connectedUsers, c, user)
               /\ timers' = IF MapHas(typingUsers, c)
                            THEN ClearTimeout(timers, typingUsers[c])
                            ELSE timers
               /\ typingUsers' = MapDelete(typingUsers, c)
               /\ out' = <<ToOthers(c, rooms, user.sessionId, "user-typing",
                                    TypingPayload(user, FALSE))>>
    /\ UNCHANGED <<now, conn, trackingSessions, connectionHealth, messageBuffer,
                   rooms, lastLocationUpdate, lastMessageTime, msgCount>>

\* ----------------------------------------------------- send-message
\* !message || typeof message !== "string" || message.trim().length === 0
\*          || message.length > 1000
InvalidMessage(message) ==
    \/ ~message.isString
    \/ message.chars = <<>>
    \/ Trim(message.chars) = <<>>
    \/ Len(message.chars) > MaxMessageLength

\* The chat message built from an accepted send-message; its id is fresh.
NewMessage(user, text, id) ==
    [id |-> id, userId |-> user.id, userName |-> user.name,
     userRole |-> user.role, message |-> Trim(text.chars),
     location |-> user.location, messageType |-> "text", edited |-> FALSE]

\* trackingSessions.get(sid) || new Set()
membersOf(sessions, sid) == IF MapHas(sessions, sid) THEN sessions[sid] ELSE {}

\* Mutant: the message is buffered for every member of the session.
BufferForEveryMember(buffers, users, members, message) ==
    [k \in (DOMAIN buffers) \cup members |->
        IF k \in members
        THEN Append(IF MapHas(buffers, k) THEN buffers[k] ELSE <<>>, message)
        ELSE buffers[k]]

\* sessionUsers.forEach(userId => { if (!connectedUsers.has(userId)) push })
BufferFor(buffers, users, members, message) ==
    [k \in (DOMAIN buffers) \cup (members \ DOMAIN users) |->
        IF k \in members \ DOMAIN users
        THEN Append(IF MapHas(buffers, k) THEN buffers[k] ELSE <<>>, message)
        ELSE buffers[k]]

\* Mutant: the limiter reads the location throttle's timestamp.
RateLimitedByLocationClock(c) == now - lastLocationUpdate[c] < messageRateLimit

\* now - lastMessageTime < messageRateLimit
RateLimited(c) == now - lastMessageTime[c] < messageRateLimit

\* socket.on("send-message")
SendMessage(c, data, limit) ==
    /\ conn[c] = "connected"
    /\ msgCount < limit
    /\ lastOp' = Op("send-message", c)
    /\ Alive
    /\ UNCHANGED <<statusSet, pongsReceived, heartbeat, process>>
    /\ UNCHANGED typingStarts
    /\ UNCHANGED lastLocationUpdate
    /\ IF RateLimited(c)
       THEN /\ Reject(c, "Message rate limit exceeded", "RATE_LIMIT")
            /\ UNCHANGED lastMessageTime
       ELSE
         /\ lastMessageTime' = [lastMessageTime EXCEPT ![c] = now]
         /\ IF ~MapHas(connectedUsers, c)
            THEN Reject(c, "User not found", "USER_NOT_FOUND")
            ELSE IF ~data.defined
            THEN Reject(c, "Failed to send message", "MESSAGE_ERROR")
            ELSE IF InvalidMessage(data.message)
            THEN Reject(c, "Invalid message content", "INVALID_MESSAGE")
            ELSE
              LET user == [connectedUsers[c] EXCEPT !.isTyping = FALSE]
                  users2 == MapSet(connectedUsers, c, user)
                  message == NewMessage(user, data.message, msgCount + 1)
              IN /\ connectedUsers' = users2
                 /\ timers' = IF MapHas(typingUsers, c)
                              THEN ClearTimeout(timers, typingUsers[c])
                              ELSE timers
                 /\ typingUsers' = MapDelete(typingUsers, c)
                 /\ messageBuffer' =
                        BufferFor(messageBuffer, users2,
                                  membersOf(trackingSessions, user.sessionId), message)
                 /\ msgCount' = msgCount + 1
                 /\ lastSentAt' = [lastSentAt EXCEPT ![c] = Some(now)]
                 /\ owed' = [k \in Conns |->
                                IF k \in membersOf(trackingSessions, user.sessionId)
                                          \ DOMAIN users2
                                THEN Append(owed[k], message)
                                ELSE owed[k]]
                 /\ out' = <<ToOthers(c, rooms, user.sessionId, "user-typing",
                                      TypingPayload(user, FALSE)),
                             ToRoom(rooms, user.sessionId, "new-message", message)>>
                 /\ UNCHANGED <<now, conn, trackingSessions, connectionHealth,
                                rooms, sentTrail, lastAcceptedAt>>
    /\ gotLive' = IF msgCount' = msgCount + 1
                   THEN [k \in Conns |->
                           IF k \in out'[2].to
                           THEN gotLive[k] \cup {out'[2].data.id}
                           ELSE gotLive[k]]
                   ELSE gotLive

\* -------------------------------------------------- location-update
\* typeof latitude !== "number" || typeof longitude !== "number" ||
\* latitude < -90 || latitude > 90 || longitude < -180 || longitude > 180
InvalidCoordinates(loc) ==
    \/ ~loc.numeric
    \/ loc.latitude < -90
    \/ loc.latitude > 90
    \/ loc.longitude < -180
    \/ loc.longitude > 180

\* { latitude, longitude, timestamp } of a location
TrailPoint(loc) == [latitude |-> loc.latitude, longitude |-> loc.longitude]

\* Mutant: the new point is put at the front of the trail (unshift).
PushTrailAtFront(trail, point) ==
    IF Len(<<point>> \o trail) > TrailCap
    THEN SliceLast(<<point>> \o trail, TrailCap)
    ELSE <<point>> \o trail

\* user.trail.push(trailPoint); if (user.trail.length > 30) slice(-30)
PushTrail(trail, point) ==
    IF Len(Append(trail, point)) > TrailCap
    THEN SliceLast(Append(trail, point), TrailCap)
    ELSE Append(trail, point)

\* Mutant: the throttle window is half as long.
ThrottledHalfWindow(c) ==
    now - lastLocationUpdate[c] < locationUpdateThrottle \div 2

\* now - lastLocationUpdate < locationUpdateThrottle
Throttled(c) == now - lastLocationUpdate[c] < locationUpdateThrottle

\* { ...user, location, accuracy, speed, heading, lastSeen, status, trail }
UpdatedUser(user, data) ==
    [user EXCEPT !.location = data.location,
                 !.accuracy = data.accuracy,
                 !.speed = data.speed,
                 !.heading = data.heading,
                 !.lastSeen = now,
                 !.status = "online",
                 !.trail = IF data.location # None
                           THEN PushTrail(user.trail, TrailPoint(data.location[1]))
                           ELSE user.trail]

\* socket.on("location-update")
LocationUpdate(c, data) ==
    /\ conn[c] = "connected"
    /\ lastOp' = Op("location-update", c)
    /\ Alive
    /\ UNCHANGED <<lastSentAt, statusSet, gotLive, pongsReceived, heartbeat, process>>
    /\ UNCHANGED typingStarts
    /\ UNCHANGED lastMessageTime
    /\ IF Throttled(c)
       THEN /\ out' = <<>>
            /\ UNCHANGED <<now, conn, connectedUsers, trackingSessions,
                           typingUsers, connectionHealth, messageBuffer, rooms,
                           lastLocationUpdate, timers, msgCount, sentTrail,
                           lastAcceptedAt, owed>>
       ELSE
         /\ lastLocationUpdate' = [lastLocationUpdate EXCEPT ![c] = now]
         /\ IF ~MapHas(connectedUsers, c)
            THEN Reject(c, "User not found", "USER_NOT_FOUND")
            ELSE IF ~data.defined
            THEN Reject(c, "Failed to update location", "LOCATION_UPDATE_ERROR")
            ELSE IF data.location # None /\ InvalidCoordinates(data.location[1])
            THEN Reject(c, "Invalid location coordinates", "INVALID_LOCATION")
            ELSE
              LET user == connectedUsers[c]
                  updatedUser == UpdatedUser(user, data)
              IN /\ connectedUsers' = MapSet(connectedUsers, c, updatedUser)
                 /\ out' = <<ToOthers(c, rooms, user.sessionId, "location-update",
                                      [userId |-> c, location |-> data.location]),
                             ToRoom(rooms, user.sessionId, "user-updated", updatedUser)>>
                 /\ sentTrail' =
                        IF data.location # None
                        THEN [sentTrail EXCEPT
                                 ![c] = Append(@, TrailPoint(data.location[1]))]
                        ELSE sentTrail
                 /\ lastAcceptedAt' = [lastAcceptedAt EXCEPT ![c] = Some(now)]
                 /\ UNCHANGED <<now, conn, trackingSessions, typingUsers,
                                connectionHealth, messageBuffer, rooms, timers,
                                msgCount, owed>>

\* ------------------------------- reactions, status and presence
\* The handlers below change nothing but connectedUsers.
OnlyUsersMayChange ==
    UNCHANGED <<now, conn, trackingSessions, typingUsers, connectionHealth,
                messageBuffer, rooms, lastLocationUpdate, lastMessageTime,
                timers, msgCount, typingStarts, sentTrail, lastAcceptedAt,
                owed, lastSentAt, heartbeat, process>>

\* !messageId || !emoji || !["add", "remove"].includes(action)
InvalidReaction(data) ==
    \/ data.messageId = None
    \/ data.emoji = None
    \/ data.action \notin {"add", "remove"}

\* socket.on("message-reaction"). A missing record ends the handler
\* silently; a missing payload throws and is only logged.
MessageReaction(c, data) ==
    /\ conn[c] = "connected"
    /\ Alive
    /\ lastOp' = Op("message-reaction", c)
    /\ OnlyUsersMayChange
    /\ UNCHANGED <<statusSet, gotLive, pongsReceived>>
    /\ UNCHANGED connectedUsers
    /\ IF ~MapHas(connectedUsers, c) \/ ~data.defined
       THEN out' = <<>>
       ELSE IF InvalidReaction(data)
       THEN out' = <<ErrorEvent(c, "Invalid reaction data", "INVALID_REACTION")>>
       ELSE LET user == connectedUsers[c]
            IN out' = <<ToRoom(rooms, user.sessionId, "message-reaction-update",
                               [messageId |-> data.messageId[1], userId |-> c,
                                userName |-> user.name, emoji |-> data.emoji[1],
                                action |-> data.action])>>

\* socket.on("status-update")
StatusUpdate(c, status) ==
    /\ conn[c] = "connected"
    /\ Alive
    /\ lastOp' = Op("status-update", c)
    /\ OnlyUsersMayChange
    /\ statusSet' = IF MapHas(connectedUsers, c) /\ status \in Statuses
                     THEN [statusSet EXCEPT ![c] = Some(status)]
                     ELSE statusSet
    /\ UNCHANGED <<gotLive, pongsReceived>>
    /\ IF ~MapHas(connectedUsers, c)
       THEN /\ out' = <<>>
            /\ UNCHANGED connectedUsers
       ELSE IF status \notin Statuses
       THEN /\ out' = <<ErrorEvent(c, "Invalid status", "INVALID_STATUS")>>
            /\ UNCHANGED connectedUsers
       ELSE LET user == connectedUsers[c]
                updatedUser == [user EXCEPT !.status = status, !.lastSeen = now]
            IN /\ connectedUsers' = MapSet(connectedUsers, c, updatedUser)
               /\ out' = <<ToOthers(c, rooms, user.sessionId, "user-status-changed",
                                    [userId |-> c, status |-> status]),
                           ToRoom(rooms, user.sessionId, "user-updated", updatedUser)>>

\* socket.on("presence-update"). A missing record ends the handler
\* silently; a missing payload throws and is only logged.
PresenceUpdate(c, data) ==
    /\ conn[c] = "connected"
    /\ Alive
    /\ lastOp' = Op("presence-update", c)
    /\ OnlyUsersMayChange
    /\ UNCHANGED <<statusSet, gotLive, pongsReceived>>
    /\ IF ~MapHas(connectedUsers, c) \/ ~data.defined
       THEN /\ out' = <<>>
            /\ UNCHANGED connectedUsers
       ELSE LET user == connectedUsers[c]
                updatedUser == [user EXCEPT !.lastSeen = now]
            IN /\ connectedUsers' = MapSet(connectedUsers, c, updatedUser)
               /\ out' = <<ToOthers(c, rooms, user.sessionId, "user-presence-changed",
                                    [userId |-> c, isActive |-> data.isActive])>>

\* ----------------------------------------------------------- inputs
\* Payloads of join-tracking: names that trim to "a" or "b" with an accepted
\* role and a session id or none; names that are empty, blank or not a
\* string; a role outside the accepted list; and a missing payload.
ValidNames == {Str(<<"a">>), Str(<<" ", "a", " ">>), Str(<<"b">>)}
BadNames == {Str(<<>>), Str(<<" ">>), NotAString}
SessionInputs == {None, Some("s1")}

JoinData(name, role, sessionId, location) ==
    [defined |-> TRUE, name |-> name, role |-> role, sessionId |-> sessionId,
     location |-> location]

NoPayload == [defined |-> FALSE]

JoinInputs ==
    {JoinData(n, "worker", s, None) : n \in ValidNames, s \in SessionInputs}
    \cup {JoinData(n, "worker", None, None) : n \in BadNames}
    \cup {JoinData(Str(<<"a">>), "guest", s, None) : s \in SessionInputs}
    \cup {NoPayload}

MessageData(message) == [defined |-> TRUE, message |-> message]

MessageInputs ==
    {MessageData(Str(<<"h", "i", " ">>)), MessageData(Str(<<" ">>)),
     MessageData(NotAString), NoPayload}

\* The clock of the registry specification advances in steps just over the
\* stale threshold (and so over the grace period).
CoarseStep == staleThreshold + 1

\* ------------------------------------------------------------- Spec
\* The registry and the session directory: connections, joins, disconnects,
\* the grace timer and the stale sweep.
NextReg ==
    \/ \E c \in Conns : Connect(c)
    \/ \E c \in Conns : \E d \in JoinInputs : Join(c, d)
    \/ \E c \in Conns : Disconnect(c)
    \/ \E t \in timers : GraceExpire(t)
    \/ performCleanup
    \/ Tick(CoarseStep, MaxTicks * CoarseStep)

SpecReg == Init /\ [][NextReg]_vars

\* Every handler of the hub but location-update, with the join payloads
\* narrowed to the default session: the valid names, and one payload with a
\* role outside the accepted list.
HubJoinInputs ==
    {JoinData(n, "worker", None, None) : n \in ValidNames}
    \cup {JoinData(Str(<<"a">>), "guest", None, None)}

Next ==
    \/ \E c \in Conns : Connect(c)
    \/ \E c \in Conns : \E d \in HubJoinInputs : Join(c, d)
    \/ \E c \in Conns : Disconnect(c)
    \/ \E t \in timers : GraceExpire(t)
    \/ performCleanup
    \/ \E c \in Conns : TypingStart(c, MaxTypingStarts)
    \/ \E c \in Conns : TypingStop(c)
    \/ \E t \in timers : TypingExpire(t)
    \/ \E c \in Conns : \E d \in MessageInputs : SendMessage(c, d, MaxMsgs)
    \/ Tick(CoarseStep, MaxTicks * CoarseStep)

Spec == Init /\ [][Next]_vars

\* ------------------------------------------------- registry claims
SessionIds == {DefaultSession, "s1"}

Registered(c) == c \in DOMAIN connectedUsers

\* The connections registered with session id s.
RegisteredIn(s) == {c \in DOMAIN connectedUsers : connectedUsers[c].sessionId = s}

MemberSet(s) == IF s \in DOMAIN trackingSessions THEN trackingSessions[s] ELSE {}

\* C1 as stated: in every reachable state the member set of every session
\* is exactly the set of connections registered with that session id.
C1_MemberSetExact == \A s \in SessionIds : MemberSet(s) = RegisteredIn(s)

\* C1 as amended: every connection that is still connected and registered
\* is in the member set of the session its record names, and every member
\* of a session that is still connected is in that session's room.
C1_LiveRegisteredAreMembers ==
    /\ \A c \in DOMAIN connectedUsers :
          conn[c] = "connected" => c \in MemberSet(connectedUsers[c].sessionId)
    /\ \A s \in SessionIds : \A c \in MemberSet(s) :
          /\ conn[c] # "none"
          /\ conn[c] = "connected" => Room(s) \in rooms[c]

\* C1's case: a connected registered member next to a record retained for a
\* connection that has disconnected.
C1_Witness ==
    /\ \E c \in DOMAIN connectedUsers :
          conn[c] = "connected" /\ c \in MemberSet(connectedUsers[c].sessionId)
    /\ \E d \in DOMAIN connectedUsers : conn[d] = "disconnected"

\* C2: no two distinct Participant records have both the same session id and
\* the same display name.
C2_UniqueNamePerSession ==
    \A c \in DOMAIN connectedUsers : \A d \in DOMAIN connectedUsers :
        c # d => ~(/\ connectedUsers[c].sessionId = connectedUsers[d].sessionId
                   /\ connectedUsers[c].name = connectedUsers[d].name)

\* C2's case: with two participants registered, a join was just rejected as
\* a duplicate.
C2_Witness ==
    /\ Cardinality(DOMAIN connectedUsers) = 2
    /\ lastOp.op = "join"
    /\ out = <<ErrorEvent(lastOp.c, "User already joined the session", "")>>

\* C4: the users-list sent to a joining connection holds exactly the
\* records registered in the joiner's session, the joiner's own included.
C4_RosterIsSession ==
    \A i \in DOMAIN out :
        out[i].ev = "users-list" =>
            /\ lastOp.op = "join"
            /\ out[i].to = {lastOp.c}
            /\ Registered(lastOp.c)
            /\ connectedUsers[lastOp.c] \in out[i].data
            /\ out[i].data =
                  {connectedUsers[k] :
                      k \in RegisteredIn(connectedUsers[lastOp.c].sessionId)}

\* C4's case: a join answered with a roster of two, the joiner and a
\* participant whose record is retained after its disconnect.
C4_Witness ==
    \E i \in DOMAIN out :
        /\ out[i].ev = "users-list"
        /\ Cardinality(out[i].data) = 2
        /\ \E u \in out[i].data : u.id # lastOp.c /\ conn[u.id] = "disconnected"

\* C5's failing case: a join into a session that still holds the record of a
\* participant who has disconnected.
C5_FailingCase ==
    /\ lastOp.op = "join"
    /\ \E i \in DOMAIN out : out[i].ev = "user-count" /\ out[i].data = 2
    /\ Registered(lastOp.c)
    /\ MemberSet(connectedUsers[lastOp.c].sessionId) = {lastOp.c}

\* C5 as stated: the user-count broadcast by a join or a disconnect is the
\* size of the session's member set at that moment.
C5_CountIsMemberSetSize ==
    \A i \in DOMAIN out :
        out[i].ev = "user-count" =>
            out[i].data =
                Cardinality(MemberSet(connectedUsers[lastOp.c].sessionId))

\* ------------------------------------------------------ hub claims
\* The join payload d names a participant already in the registry: its
\* name, once trimmed, and its session id are those of a stored record.
NamesRegistered(d) ==
    /\ d.defined
    /\ d.name.isString
    /\ \E k \in DOMAIN connectedUsers :
          /\ connectedUsers[k].name = Trim(d.name.chars)
          /\ connectedUsers[k].sessionId = SessionOf(d.sessionId)

\* C3: a join whose trimmed name is that of a participant registered in the
\* same session is answered with one error to the joiner alone and changes
\* neither the registry, the session directory, the message buffers nor the
\* typing timers.
C3_DuplicateJoinRejected ==
    [][\A c \in Conns : \A d \in HubJoinInputs :
          (Join(c, d) /\ NamesRegistered(d)) =>
              /\ connectedUsers' = connectedUsers
              /\ trackingSessions' = trackingSessions
              /\ messageBuffer' = messageBuffer
              /\ typingUsers' = typingUsers
              /\ timers' = timers
              /\ rooms' = rooms
              /\ Len(out') = 1
              /\ out'[1].ev = "error"
              /\ out'[1].to = {c}]_vars

\* C3's case: a join was just rejected as a duplicate while a message is
\* buffered and a typing timer is pending.
C3_Witness ==
    /\ lastOp.op = "join"
    /\ out = <<ErrorEvent(lastOp.c, "User already joined the session", "")>>
    /\ DOMAIN messageBuffer # {}
    /\ DOMAIN typingUsers # {}
    /\ timers # {}

\* C6: a reconnection buffer exists only for a connection id that has no
\* record in the registry.
C6_BufferOnlyForUnregistered ==
    \A k \in DOMAIN messageBuffer : k \notin DOMAIN connectedUsers

\* C6's case: a join has just delivered the joiner's buffered messages.
C6_Witness ==
    /\ lastOp.op = "join"
    /\ Registered(lastOp.c)
    /\ \E i \in DOMAIN out :
          out[i].ev = "buffered-messages" /\ Len(out[i].data) > 0

\* --------------------------------------------- location specification
\* One participant reporting its position. The run starts right after socket
\* c1 has connected and joined the default session as "a" (LocStart is a
\* state of SpecReg); the clock then advances in half throttle windows.
LocStep == locationUpdateThrottle \div 2

LocStart ==
    /\ now = StartTime
    /\ conn = [c \in Conns |-> IF c = "c1" THEN "connected" ELSE "none"]
    /\ connectionHealth = MapSet(EmptyMap, "c1", NewHealth)
    /\ connectedUsers =
          MapSet(EmptyMap, "c1",
                 NewUser("c1", <<"a">>, "worker", DefaultSession, None))
    /\ trackingSessions = MapSet(EmptyMap, DefaultSession, {"c1"})
    /\ typingUsers = EmptyMap
    /\ messageBuffer = EmptyMap
    /\ rooms = [c \in Conns |-> IF c = "c1" THEN {Room(DefaultSession)} ELSE {}]
    /\ lastLocationUpdate = [c \in Conns |-> 0]
    /\ lastMessageTime = [c \in Conns |-> 0]
    /\ timers = {}
    /\ msgCount = 0
    /\ typingStarts = 0
    /\ sentTrail = [c \in Conns |-> <<>>]
    /\ lastAcceptedAt = [c \in Conns |-> None]
    /\ owed = [c \in Conns |-> <<>>]
    /\ lastSentAt = [c \in Conns |-> None]
    /\ statusSet = [c \in Conns |-> None]
    /\ gotLive = [c \in Conns |-> {}]
    /\ pongsReceived = [c \in Conns |-> 0]
    /\ pingIntervalTime = [c \in Conns |-> InitialPingInterval]
    /\ pingInterval = [c \in Conns |->
                          IF c = "c1" THEN SetInterval(InitialPingInterval) ELSE None]
    /\ pongListeners = [c \in Conns |-> <<>>]
    /\ proc = "running"
    /\ closing = [io |-> <<>>, server |-> 0]

InitLoc ==
    /\ LocStart
    /\ out = <<>>
    /\ lastOp = Op("init", "")

\* The n-th position a client reports: distinct coordinates inside the
\* valid ranges.
Position(n) ==
    [numeric |-> TRUE, latitude |-> ((7 * n) % 181) - 90, longitude |-> n % 181]

LocationData(location, accuracy) ==
    [defined |-> TRUE, location |-> location, accuracy |-> accuracy,
     speed |-> None, heading |-> None]

\* Payloads of location-update from socket c: its next position, a latitude
\* out of range, a coordinate that is not a number, no location, no payload.
LocInputs(c) ==
    {LocationData(Some(Position(Len(sentTrail[c]) + 1)), Some(5)),
     LocationData(Some([numeric |-> TRUE, latitude |-> 91, longitude |-> 0]), None),
     LocationData(Some([numeric |-> FALSE, latitude |-> 0, longitude |-> 0]), None),
     LocationData(None, None),
     NoPayload}

NextLoc ==
    \/ \E c \in Conns : \E d \in LocInputs(c) : LocationUpdate(c, d)
    \/ Tick(LocStep, MaxLocTicks * LocStep)

SpecLoc == InitLoc /\ [][NextLoc]_vars

\* The last min(Len(s), n) elements of s, oldest first.
LastOf(s, n) ==
    LET m == IF Len(s) < n THEN Len(s) ELSE n
    IN [i \in 1..m |-> s[Len(s) - m + i]]

\* C9: a trail holds at most 30 points, and after k accepted location
\* updates that carry a location it is the last min(k, 30) of them in the
\* order they were accepted.
C9_TrailIsLastThirty ==
    \A c \in DOMAIN connectedUsers :
        /\ Len(connectedUsers[c].trail) <= 30
        /\ connectedUsers[c].trail = LastOf(sentTrail[c], 30)

\* C9's case: the 31st point has been accepted and the first one is gone.
C9_Witness ==
    /\ Len(sentTrail["c1"]) = 31
    /\ Len(connectedUsers["c1"].trail) = 30
    /\ connectedUsers["c1"].trail[1] = sentTrail["c1"][2]
    /\ connectedUsers["c1"].trail[30] = sentTrail["c1"][31]

\* C10: a location update sent less than 1000 ms after an accepted one
\* changes no participant and no map, and emits nothing, not even an error.
C10_SecondUpdateIsNoOp ==
    [][\A c \in Conns : \A d \in LocInputs(c) :
          (/\ LocationUpdate(c, d)
           /\ lastAcceptedAt[c] # None
           /\ now - lastAcceptedAt[c][1] < 1000) =>
              /\ connectedUsers' = connectedUsers
              /\ store' = store
              /\ sentTrail' = sentTrail
              /\ out' = <<>>]_vars

\* C10's case: an update was just dropped 500 ms after an accepted one.
C10_Witness ==
    /\ lastOp.op = "location-update"
    /\ out = <<>>
    /\ lastAcceptedAt[lastOp.c] # None
    /\ now - lastAcceptedAt[lastOp.c][1] = 500
    /\ Len(sentTrail[lastOp.c]) > 0

\* ----------------------------------------------- buffer specification
\* Messages for a member that has no registry record. The run starts after
\* socket c1 joined the default session as "a", the clock passed the stale
\* threshold, socket c2 connected and joined as "b", and the cleanup swept
\* c1's record while leaving c1 in the session's member set (BufStart is a
\* state of SpecReg). From there c2 sends and c1 joins again. The clock
\* advances one rate-limit window per accepted message, so messages follow
\* each other as fast as the limiter allows.
BufStart ==
    /\ now = StartTime + CoarseStep
    /\ conn = [c \in Conns |-> "connected"]
    /\ connectionHealth = MapSet(EmptyMap, "c2", NewHealth)
    /\ connectedUsers =
          MapSet(EmptyMap, "c2",
                 NewUser("c2", <<"b">>, "worker", DefaultSession, None))
    /\ trackingSessions = MapSet(EmptyMap, DefaultSession, {"c1", "c2"})
    /\ typingUsers = EmptyMap
    /\ messageBuffer = EmptyMap
    /\ rooms = [c \in Conns |-> {Room(DefaultSession)}]
    /\ lastLocationUpdate = [c \in Conns |-> 0]
    /\ lastMessageTime = [c \in Conns |-> 0]
    /\ timers = {}
    /\ msgCount = 0
    /\ typingStarts = 0
    /\ sentTrail = [c \in Conns |-> <<>>]
    /\ lastAcceptedAt = [c \in Conns |-> None]
    /\ owed = [c \in Conns |-> <<>>]
    /\ lastSentAt = [c \in Conns |-> None]
    /\ statusSet = [c \in Conns |-> None]
    /\ gotLive = [c \in Conns |-> {}]
    /\ pongsReceived = [c \in Conns |-> 0]
    /\ pingIntervalTime = [c \in Conns |-> InitialPingInterval]
    /\ pingInterval =
          [c \in Conns |->
              Some([due |-> (IF c = "c1" THEN StartTime ELSE now) + InitialPingInterval,
                    period |-> InitialPingInterval])]
    /\ pongListeners = [c \in Conns |-> <<>>]
    /\ proc = "running"
    /\ closing = [io |-> <<>>, server |-> 0]

InitBuf ==
    /\ BufStart
    /\ out = <<>>
    /\ lastOp = Op("init", "")

\* Payloads of join-tracking in the buffer specification: the free name and
\* the name the other participant holds.
BufJoinInputs ==
    {JoinData(Str(<<"a">>), "worker", None, None),
     JoinData(Str(<<"b">>), "worker", None, None)}

NextBuf ==
    \/ \E d \in MessageInputs : SendMessage("c2", d, MaxBufMsgs)
    \/ \E d \in BufJoinInputs : Join("c1", d)
    \/ performCleanup
    \/ Tick(messageRateLimit, CoarseStep + msgCount * messageRateLimit)

SpecBuf == InitBuf /\ [][NextBuf]_vars

\* s is the tail of t.
IsSuffix(s, t) ==
    /\ Len(s) <= Len(t)
    /\ \A i \in 1..Len(s) : s[i] = t[Len(t) - Len(s) + i]

\* The join-tracking of socket c that this step handles is accepted.
JoinAccepted(c) ==
    /\ lastOp' = Op("join", c)
    /\ \E i \in 1..Len(out') : out'[i].ev = "users-list" /\ out'[i].to = {c}

\* The payloads of the buffered-messages events this step sends to socket c.
BufferedSent(c) ==
    {out'[i].data : i \in {j \in 1..Len(out') :
                              /\ out'[j].ev = "buffered-messages"
                              /\ out'[j].to = {c}}}

\* C7 as stated: every message accepted while socket X was a member of the
\* sender's session without a registry record is delivered to X, in the order
\* sent, by the buffered-messages event of X's next accepted join, and X has
\* no buffer entry afterwards.
C7_AllOwedDelivered ==
    [][\A c \in Conns : \A d \in BufJoinInputs :
          (Join(c, d) /\ JoinAccepted(c)) =>
              /\ owed[c] # <<>> => BufferedSent(c) = {owed[c]}
              /\ c \notin DOMAIN messageBuffer']_vars

\* C7, amended: X's next accepted join delivers, in the order sent, the most
\* recent of those messages: all of them when at most 100 were accepted, and
\* otherwise a tail of at least 50 (a cleanup run that finds more than 100
\* in X's buffer keeps the newest 50); X has no buffer entry afterwards.
C7_OwedTailDelivered ==
    [][\A c \in Conns : \A d \in BufJoinInputs :
          (Join(c, d) /\ JoinAccepted(c)) =>
              /\ owed[c] # <<>> =>
                    \E data \in BufferedSent(c) :
                        /\ BufferedSent(c) = {data}
                        /\ IsSuffix(data, owed[c])
                        /\ Len(owed[c]) <= 100 => data = owed[c]
                        /\ Len(owed[c]) > 100 => Len(data) >= 50
              /\ c \notin DOMAIN messageBuffer']_vars

\* C7's case: c1 has just joined and received its buffered messages, the
\* oldest of which a cleanup run had dropped.
C7_Witness ==
    /\ lastOp = Op("join", "c1")
    /\ "c1" \in DOMAIN connectedUsers
    /\ "c1" \notin DOMAIN messageBuffer
    /\ \E i \in 1..Len(out) :
          /\ out[i].ev = "buffered-messages"
          /\ out[i].to = {"c1"}
          /\ Len(out[i].data) >= 50
          /\ out[i].data[1].id > 1
          /\ out[i].data[Len(out[i].data)].id = msgCount

\* C8: every reconnection buffer holds at most 100 messages in every
\* reachable state, however many are accepted between two cleanup runs.
C8_BufferAtMostHundred ==
    \A k \in DOMAIN messageBuffer : Len(messageBuffer[k]) <= 100

\* C8's failing case: 101 messages were accepted for c1 since the last
\* cleanup run, and all of them are in its buffer.
C8_FailingCase ==
    /\ "c1" \in DOMAIN messageBuffer
    /\ "c1" \notin DOMAIN connectedUsers
    /\ Len(messageBuffer["c1"]) = 101

\* C11: a send-message handled less than 500 ms after the same socket's last
\* accepted message is answered with one RATE_LIMIT error to the sender; no
\* new-message is emitted, no message is created and no buffer changes.
C11_SecondMessageRateLimited ==
    [][\A c \in Conns : \A d \in MessageInputs :
          (/\ SendMessage(c, d, MaxBufMsgs)
           /\ lastSentAt[c] # None
           /\ now - lastSentAt[c][1] < 500) =>
              /\ out' = <<ErrorEvent(c, "Message rate limit exceeded", "RATE_LIMIT")>>
              /\ messageBuffer' = messageBuffer
              /\ msgCount' = msgCount
              /\ connectedUsers' = connectedUsers]_vars

\* C11's case: a send-message was just refused in the window of an accepted
\* one, while messages wait in a member's buffer.
C11_Witness ==
    /\ lastOp.op = "send-message"
    /\ out = <<ErrorEvent(lastOp.c, "Message rate limit exceeded", "RATE_LIMIT")>>
    /\ lastSentAt[lastOp.c] # None
    /\ now - lastSentAt[lastOp.c][1] < 500
    /\ DOMAIN messageBuffer # {}

\* ----------------------------------------------- typing specification
\* Typing indicators with nothing else sent. The run starts with c1 and c2
\* joined as "a" and "b" in the default session since the server's start,
\* neither having answered a heartbeat, two clock steps before they become
\* stale. The sockets send typing-start only; timers fire and the cleanup runs.
TypStep == TypingTimeoutMs \div 3

TypStart ==
    /\ now = StartTime + staleThreshold - 2 * TypStep
    /\ conn = [c \in Conns |-> "connected"]
    /\ connectionHealth =
          [c \in Conns |-> [NewHealth EXCEPT !.connectedAt = StartTime,
                                             !.lastPing = StartTime]]
    /\ connectedUsers =
          [c \in Conns |->
              [NewUser(c, IF c = "c1" THEN <<"a">> ELSE <<"b">>, "worker",
                       DefaultSession, None)
                  EXCEPT !.joinedAt = StartTime, !.lastSeen = StartTime]]
    /\ trackingSessions = MapSet(EmptyMap, DefaultSession, Conns)
    /\ typingUsers = EmptyMap
    /\ messageBuffer = EmptyMap
    /\ rooms = [c \in Conns |-> {Room(DefaultSession)}]
    /\ lastLocationUpdate = [c \in Conns |-> 0]
    /\ lastMessageTime = [c \in Conns |-> 0]
    /\ timers = {}
    /\ msgCount = 0
    /\ typingStarts = 0
    /\ sentTrail = [c \in Conns |-> <<>>]
    /\ lastAcceptedAt = [c \in Conns |-> None]
    /\ owed = [c \in Conns |-> <<>>]
    /\ lastSentAt = [c \in Conns |-> None]
    /\ statusSet = [c \in Conns |-> None]
    /\ gotLive = [c \in Conns |-> {}]
    /\ pongsReceived = [c \in Conns |-> 0]
    /\ pingIntervalTime = [c \in Conns |-> InitialPingInterval]
    /\ pingInterval =
          [c \in Conns |-> Some([due |-> StartTime + InitialPingInterval,
                                 period |-> InitialPingInterval])]
    /\ pongListeners = [c \in Conns |-> <<>>]
    /\ proc = "running"
    /\ closing = [io |-> <<>>, server |-> 0]

InitTyp ==
    /\ TypStart
    /\ out = <<>>
    /\ lastOp = Op("init", "")

NextTyp ==
    \/ \E c \in Conns : TypingStart(c, MaxTypingBurst)
    \/ \E t \in timers : TypingExpire(t)
    \/ performCleanup
    \/ Tick(TypStep, staleThreshold - 2 * TypStep + MaxTypTicks * TypStep)

SpecTyp == InitTyp /\ [][NextTyp]_vars

\* The pending typing timers of socket c.
TypingTimers(ts, c) == {t \in ts : t.kind = "typing" /\ t.c = c}

\* The step emits exactly one user-typing event, saying c stopped typing.
OneTypingFalse(c) ==
    /\ Len(out') = 1
    /\ out'[1].ev = "user-typing"
    /\ out'[1].data.userId = c
    /\ out'[1].data.isTyping = FALSE

AdvanceToTimer ==
    \E t \in timers : now < t.due /\ Tick(t.due - now, t.due - StartTime)

NextGrace ==
    \/ \E c \in Conns : Connect(c)
    \/ \E c \in Conns : \E d \in JoinInputs : Join(c, d)
    \/ \E c \in Conns : Disconnect(c)
    \/ \E t \in timers : GraceExpire(t)
    \/ performCleanup
    \/ Tick(CoarseStep, MaxTicks * CoarseStep)
    \/ AdvanceToTimer

SpecGrace ==
    /\ Init
    /\ [][NextGrace]_vars
    /\ WF_vars(AdvanceToTimer)
    /\ WF_vars(\E t \in timers : GraceExpire(t))

\* The record of socket c is kept although c has disconnected.
Retained(c) == conn[c] = "disconnected" /\ MapHas(connectedUsers, c)

\* C13: the disconnect of a registered participant keeps its record and
\* starts a timer of 5 minutes; the record of a disconnected participant is
\* removed by that timer's callback only, which also removes the buffer entry
\* of that id; and every retained record is eventually removed.
C13_RetainedUntilGraceExpires ==
    /\ [][/\ \A c \in Conns :
                (Disconnect(c) /\ MapHas(connectedUsers, c)) =>
                    /\ MapHas(connectedUsers', c)
                    /\ connectedUsers'[c] = connectedUsers[c]
                    /\ \E t \in timers' \ timers :
                          t.kind = "grace" /\ t.c = c /\ t.due = now + 300000
          /\ \A c \in Conns :
                (Retained(c) /\ ~MapHas(connectedUsers', c)) =>
                    \E t \in timers : /\ GraceExpire(t)
                                      /\ t.c = c
                                      /\ now >= t.due
          /\ \A t \in timers :
                GraceExpire(t) => /\ ~MapHas(connectedUsers', t.c)
                                  /\ ~MapHas(messageBuffer', t.c)]_vars
    /\ \A c \in Conns : Retained(c) ~> ~MapHas(connectedUsers, c)

\* C13's case: the grace timer of a disconnected participant has fired, five
\* minutes after the disconnect, and its record is gone.
C13_Witness ==
    /\ lastOp.op = "grace"
    /\ conn[lastOp.c] = "disconnected"
    /\ ~MapHas(connectedUsers, lastOp.c)
    /\ now = StartTime + 300000
    /\ \E c \in Conns : Retained(c)

\* ------------------------------------------------- join specification
\* Joins with every kind of role, with and without an initial location,
\* followed by location updates.
InitialLocations ==
    {None, Some([numeric |-> TRUE, latitude |-> 91, longitude |-> 0])}

\* Payloads of join-tracking: the names "a" and "b", the four roles the
\* handler lists and one it does not, with and without a location.
ProfileJoinInputs ==
    {JoinData(Str(n), r, None, l) :
        n \in {<<"a">>, <<"b">>},
        r \in JoinRoles \cup {"guest"},
        l \in InitialLocations}

NextJoin ==
    \/ \E c \in Conns : Connect(c)
    \/ \E c \in Conns : \E d \in ProfileJoinInputs : Join(c, d)
    \/ \E c \in Conns : \E d \in LocInputs(c) : LocationUpdate(c, d)

SpecJoin == Init /\ [][NextJoin]_vars

\* C14 as stated: a join whose role is not admin, supervisor or worker is
\* answered with the invalid-role error and creates no participant, and
\* every participant in the registry has one of these three roles.
C14_RoleInEnumeration ==
    /\ [][\A c \in Conns : \A d \in ProfileJoinInputs :
             (/\ Join(c, d)
              /\ ~InvalidName(d.name)
              /\ d.role \notin {"admin", "supervisor", "worker"}) =>
                 /\ out' = <<ErrorEvent(c, "Invalid role provided", "")>>
                 /\ connectedUsers' = connectedUsers]_vars
    /\ [](\A c \in DOMAIN connectedUsers :
             connectedUsers[c].role \in {"admin", "supervisor", "worker"})

\* C14's failing case: a join with the role "new" was accepted.
C14_FailingCase ==
    /\ lastOp.op = "join"
    /\ MapHas(connectedUsers, lastOp.c)
    /\ connectedUsers[lastOp.c].role = "new"
    /\ \E i \in DOMAIN out : out[i].ev = "users-list"

\* C15 as stated: every participant whose location is present has a numeric
\* latitude in [-90, 90] and a numeric longitude in [-180, 180].
C15_LocationInRange ==
    \A c \in DOMAIN connectedUsers :
        connectedUsers[c].location # None =>
            LET loc == connectedUsers[c].location[1]
            IN /\ loc.numeric
               /\ -90 <= loc.latitude /\ loc.latitude <= 90
               /\ -180 <= loc.longitude /\ loc.longitude <= 180

\* C15's failing case: a join carrying latitude 91 was accepted and the
\* record holds that location.
C15_FailingCase ==
    /\ lastOp.op = "join"
    /\ MapHas(connectedUsers, lastOp.c)
    /\ connectedUsers[lastOp.c].location # None
    /\ connectedUsers[lastOp.c].location[1].latitude = 91
    /\ \E i \in DOMAIN out : out[i].ev = "users-list"

\* ----------------------------------------------- events specification
\* The events a client sends about itself and its messages, from sockets
\* that have joined and from sockets that have not.
ReactionData(messageId, emoji, action) ==
    [defined |-> TRUE, messageId |-> messageId, emoji |-> emoji, action |-> action]

ReactionInputs ==
    {ReactionData(Some(1), Some("+1"), "add"),
     ReactionData(Some(1), None, "remove"),
     ReactionData(Some(1), Some("+1"), "toggle"),
     NoPayload}

StatusInputs == Statuses \cup {"busy"}

PresenceInputs == {[defined |-> TRUE, isActive |-> TRUE], NoPayload}

NextEvents ==
    \/ \E c \in Conns : Connect(c)
    \/ \E c \in Conns : \E d \in HubJoinInputs : Join(c, d)
    \/ \E c \in Conns : \E d \in LocInputs(c) : LocationUpdate(c, d)
    \/ \E c \in Conns : \E d \in MessageInputs : SendMessage(c, d, MaxMsgs)
    \/ \E c \in Conns : \E d \in ReactionInputs : MessageReaction(c, d)
    \/ \E c \in Conns : \E st \in StatusInputs : StatusUpdate(c, st)
    \/ \E c \in Conns : \E d \in PresenceInputs : PresenceUpdate(c, d)

SpecEvents == Init /\ [][NextEvents]_vars

\* The events C16 is about.
ParticipantEvents ==
    {"location-update", "send-message", "message-reaction", "status-update",
     "presence-update"}

\* C16 as stated: each of these events from a socket without a record in the
\* registry is answered with an error event to that socket and changes no
\* record, no session and no buffer.
C16_UnknownParticipantReported ==
    [][\A c \in Conns :
          (/\ lastOp'.c = c
           /\ lastOp'.op \in ParticipantEvents
           /\ ~MapHas(connectedUsers, c)) =>
              /\ Len(out') = 1
              /\ out'[1].ev = "error"
              /\ out'[1].to = {c}
              /\ connectedUsers' = connectedUsers
              /\ trackingSessions' = trackingSessions
              /\ messageBuffer' = messageBuffer]_vars

\* C16's failing case: a status-update from a socket that has no record was
\* handled and nothing was sent.
C16_FailingCase ==
    /\ lastOp.op = "status-update"
    /\ ~MapHas(connectedUsers, lastOp.c)
    /\ out = <<>>

\* ------------------------------------------ heartbeat specification
\* The heartbeat of one socket over MaxPingRounds ping periods.  After a
\* ping the clock passes through the three latency classes of the pong
\* listener (under 100 ms, 100 to 1000 ms, over 1000 ms); otherwise it moves
\* to the next ping or timeout that is due.
HbUntil == (MaxPingRounds + 1) * InitialPingInterval

SinceLastPing(c) == now - pongListeners[c][Len(pongListeners[c])].startTime

\* Timers run in the order they are due: the clock does not pass a ping
\* or a timeout that has not run yet.
NothingDueBefore(time) ==
    /\ \A t \in timers : t.due >= time
    /\ \A c \in Conns : pingInterval[c] # None => pingInterval[c][1].due >= time

LatencyStep ==
    \E c \in Conns :
        /\ pongListeners[c] # <<>>
        /\ \/ /\ SinceLastPing(c) = 0
              /\ NothingDueBefore(now + 50)
              /\ Tick(50, now + 50 - StartTime)
           \/ /\ SinceLastPing(c) = 50
              /\ NothingDueBefore(now + 450)
              /\ Tick(450, now + 450 - StartTime)
           \/ /\ SinceLastPing(c) = 500
              /\ NothingDueBefore(now + 1000)
              /\ Tick(1000, now + 1000 - StartTime)

DueTimes ==
    {t.due : t \in timers}
        \cup {pingInterval[c][1].due : c \in {k \in Conns : pingInterval[k] # None}}

AdvanceToDue ==
    \E time \in DueTimes :
        /\ now < time
        /\ NothingDueBefore(time)
        /\ Tick(time - now, HbUntil)

NextHb ==
    \/ Connect("c1")
    \/ Disconnect("c1")
    \/ Ping("c1", HbUntil)
    \/ \E t \in timers : PingTimeout(t)
    \/ pongsReceived["c1"] < MaxPongs /\ Pong("c1")
    \/ LatencyStep
    \/ AdvanceToDue

SpecHb == Init /\ [][NextHb]_vars

\* C17: when a ping has been sent to a connection, the next ping is scheduled
\* after the connection's adaptive interval as it is at that moment.
C17_PingDelayIsAdaptiveInterval ==
    [][\A c \in Conns :
          lastOp' = Op("ping", c) /\ lastOp # lastOp'
          => /\ pingInterval'[c] # None
             /\ pingInterval'[c][1].due - now' = pingIntervalTime'[c]]_vars

\* A ping was sent after the interval had adapted away from its initial
\* value, and the next ping is not scheduled after the adapted interval.
C17_FailingCase ==
    \E c \in Conns :
        /\ lastOp = Op("ping", c)
        /\ pingInterval[c] # None
        /\ pingIntervalTime[c] # InitialPingInterval
        /\ pingInterval[c][1].due - now # pingIntervalTime[c]

\* C18: the adaptive interval of every connection stays within 15000 and
\* 60000 ms, and for a connection with a health record a pong moves it by
\* the step of the pong's latency (the time since the last ping: +5000 up to
\* 60000 under 100 ms, -2000 down to 15000 over 1000 ms, nothing between)
\* and a ping timeout moves it by -5000 down to 15000.
C18_AdaptationExact ==
    /\ [](\A c \in Conns :
             pingIntervalTime[c] \in MinPingInterval..MaxPingInterval)
    /\ [][\A c \in Conns :
             MapHas(connectionHealth, c) /\ lastOp # lastOp'
             => /\ lastOp' = Op("pong", c) /\ pongListeners[c] # <<>>
                   => pingIntervalTime'[c] =
                        AfterPong(pingIntervalTime[c], SinceLastPing(c))
                /\ lastOp' = Op("ping-timeout", c)
                   => pingIntervalTime'[c] =
                        AfterTimeout(pingIntervalTime[c])]_vars

\* A pong that answers the last ping within 100 ms has just been handled
\* while the listener of an earlier, unanswered ping was still registered:
\* the interval went from 25000 to 28000.
C18_FailingCase ==
    \E c \in Conns :
        /\ lastOp = Op("pong", c)
        /\ MapHas(connectionHealth, c)
        /\ connectionHealth[c].pingCount = 2
        /\ connectionHealth[c].reconnectCount = 1
        /\ connectionHealth[c].latency = Some(50)
        /\ pingIntervalTime[c] = 28000

\* ---------------------------------------------------------- shutdown
CloseTimeoutMs == 5000
ForceExitMs == 15000
RecoverDelayMs == 1000

\* The calls of gracefulShutdown so far: the watchdog of each is pending.
ShutdownCalls == Cardinality({t \in timers : t.kind = "forceExit"})

\* Mutant: the snapshot is taken empty.
serverStateEmpty == [users |-> EmptyMap, sessions |-> EmptyMap]

\* const serverState: the participants and the sessions as they are when
\* gracefulShutdown starts.
serverState == [users |-> connectedUsers, sessions |-> trackingSessions]

\* gracefulShutdown with the timers ts pending: the shutdown notice goes to
\* every connected socket, closeTimeout and the watchdog are started and
\* io.close(cb) is called.  The two timers get handles of their own.
gracefulShutdown(ts) ==
    LET closeTimeout == [kind |-> "closeTimeout", c |-> "",
                         due |-> now + CloseTimeoutMs,
                         h |-> 0 - (2 * ShutdownCalls + 1)]
        forceExit == [kind |-> "forceExit", c |-> "",
                      due |-> now + ForceExitMs,
                      h |-> 0 - (2 * ShutdownCalls + 2)]
    IN /\ Alive
       /\ out' = <<Emit("server-shutdown",
                        {c \in Conns : conn[c] = "connected"},
                        serverState)>>
       /\ timers' = ts \cup {closeTimeout, forceExit}
       /\ closing' = [closing EXCEPT !.io = Append(@, closeTimeout.h)]
       /\ UNCHANGED <<now, conn, connectedUsers, trackingSessions, typingUsers,
                      connectionHealth, messageBuffer, rooms,
                      lastLocationUpdate, lastMessageTime, msgCount,
                      typingStarts, sentTrail, lastAcceptedAt, owed,
                      lastSentAt, statusSet, gotLive, pongsReceived, heartbeat, proc>>

\* SIGTERM, SIGINT, SIGUSR2 or SIGHUP arrives.
Signal(limit) ==
    /\ ShutdownCalls < limit
    /\ lastOp' = Op("signal", "")
    /\ gracefulShutdown(timers)

\* An uncaught exception: gracefulShutdown is called a second later (this
\* listener is the only one the program registers for uncaughtException).
UncaughtException(limit) ==
    /\ Alive
    /\ ShutdownCalls + Cardinality({t \in timers : t.kind = "recover"}) < limit
    /\ lastOp' = Op("uncaughtException", "")
    /\ timers' = timers \cup {Timer(timers, "recover", "", RecoverDelayMs)}
    /\ out' = <<>>
    /\ UNCHANGED <<now, conn, connectedUsers, trackingSessions, typingUsers,
                   connectionHealth, messageBuffer, rooms, lastLocationUpdate,
                   lastMessageTime, msgCount, typingStarts, sentTrail,
                   lastAcceptedAt, owed, lastSentAt, statusSet, gotLive, pongsReceived, heartbeat, process>>

RecoverExpire(t) ==
    /\ t \in timers
    /\ t.kind = "recover"
    /\ now >= t.due
    /\ lastOp' = Op("recover", "")
    /\ gracefulShutdown(timers \ {t})

\* closeTimeout fires: io.close() is called again, without a callback.
CloseTimeoutExpire(t) ==
    /\ Alive
    /\ t \in timers
    /\ t.kind = "closeTimeout"
    /\ now >= t.due
    /\ lastOp' = Op("closeTimeout", "")
    /\ timers' = timers \ {t}
    /\ out' = <<>>
    /\ UNCHANGED <<now, conn, connectedUsers, trackingSessions, typingUsers,
                   connectionHealth, messageBuffer, rooms, lastLocationUpdate,
                   lastMessageTime, msgCount, typingStarts, sentTrail,
                   lastAcceptedAt, owed, lastSentAt, statusSet, gotLive, pongsReceived, heartbeat, process>>

\* Mutant: the watchdog is cleared with closeTimeout.
ClearedByCloseWithWatchdog(ts, handles) ==
    {t \in ts : \A i \in 1..Len(handles) :
                    t.h # handles[i] /\ t.h # handles[i] - 1}

\* The timers left when the callbacks of io.close ran clearTimeout.
ClearedByClose(ts, handles) ==
    {t \in ts : \A i \in 1..Len(handles) : t.h # handles[i]}

\* The connections are closed (io.close ends every socket, and the
\* disconnect handler of each runs as a step of its own): every pending
\* callback of io.close runs, clears its closeTimeout and calls
\* server.close(cb).
IoClosed ==
    /\ Alive
    /\ closing.io # <<>>
    /\ \A c \in Conns : conn[c] # "connected"
    /\ lastOp' = Op("io-closed", "")
    /\ timers' = ClearedByClose(timers, closing.io)
    /\ closing' = [io |-> <<>>, server |-> closing.server + Len(closing.io)]
    /\ out' = <<>>
    /\ UNCHANGED <<now, conn, connectedUsers, trackingSessions, typingUsers,
                   connectionHealth, messageBuffer, rooms, lastLocationUpdate,
                   lastMessageTime, msgCount, typingStarts, sentTrail,
                   lastAcceptedAt, owed, lastSentAt, statusSet, gotLive, pongsReceived, heartbeat, proc>>

\* The listening server is closed: the callback of server.close runs
\* process.exit(0).
ServerClosed ==
    /\ Alive
    /\ closing.server > 0
    /\ lastOp' = Op("server-closed", "")
    /\ proc' = "exited0"
    /\ out' = <<>>
    /\ UNCHANGED <<now, conn, connectedUsers, trackingSessions, typingUsers,
                   connectionHealth, messageBuffer, rooms, lastLocationUpdate,
                   lastMessageTime, timers, msgCount, typingStarts, sentTrail,
                   lastAcceptedAt, owed, lastSentAt, statusSet, gotLive, pongsReceived, heartbeat, closing>>

\* The watchdog fires: process.exit(1).
ForceExit(t) ==
    /\ Alive
    /\ t \in timers
    /\ t.kind = "forceExit"
    /\ now >= t.due
    /\ lastOp' = Op("forceExit", "")
    /\ proc' = "exited1"
    /\ timers' = timers \ {t}
    /\ out' = <<>>
    /\ UNCHANGED <<now, conn, connectedUsers, trackingSessions, typingUsers,
                   connectionHealth, messageBuffer, rooms, lastLocationUpdate,
                   lastMessageTime, msgCount, typingStarts, sentTrail,
                   lastAcceptedAt, owed, lastSentAt, statusSet, gotLive, pongsReceived, heartbeat, closing>>

\* The clock reaches the next due time of a pending timer, and passes no
\* timer that has not run.
AdvanceInOrder ==
    \E t \in timers :
        /\ now < t.due
        /\ \A x \in timers : x.due >= t.due
        /\ Tick(t.due - now, t.due - StartTime)

\* Connections and joins before the shutdown (a closing server accepts no
\* connection), disconnects, signals and faults, the closing of the
\* connections and of the server as the environment completes them, and the
\* timers, which run in the order they are due.
NextShutdown ==
    \/ \E c \in Conns : now = StartTime /\ ShutdownCalls = 0 /\ Connect(c)
    \/ \E c \in Conns : \E d \in BufJoinInputs :
          now = StartTime /\ ShutdownCalls = 0 /\ Join(c, d)
    \/ \E c \in Conns : Disconnect(c)
    \/ Signal(MaxShutdownCalls)
    \/ UncaughtException(MaxShutdownCalls)
    \/ \E t \in timers : RecoverExpire(t)
    \/ \E t \in timers : CloseTimeoutExpire(t)
    \/ IoClosed
    \/ ServerClosed
    \/ \E t \in timers : ForceExit(t)
    \/ \E t \in timers : GraceExpire(t)
    \/ AdvanceInOrder

\* The event loop runs a timer that is due.
RunDueTimer ==
    \E t \in timers :
        \/ RecoverExpire(t)
        \/ CloseTimeoutExpire(t)
        \/ ForceExit(t)
        \/ GraceExpire(t)

SpecShutdown ==
    /\ Init
    /\ [][NextShutdown]_vars
    /\ WF_vars(AdvanceInOrder)
    /\ WF_vars(RunDueTimer)

ShutdownTriggered == ShutdownCalls > 0 \/ ~Alive

\* C19: once gracefulShutdown has been called the process exits; it exits
\* with status 0 only from the callback of server.close, after the
\* connections were closed, and with status 1 only when a watchdog is due,
\* 15000 ms after a call of gracefulShutdown.
C19_ShutdownAlwaysExits ==
    /\ ShutdownTriggered ~> ~Alive
    /\ [][/\ proc' = "exited0" /\ Alive
             => closing.server > 0
          /\ proc' = "exited1" /\ Alive
             => \E t \in timers : t.kind = "forceExit" /\ now >= t.due]_vars
    /\ [](\A t \in timers :
             t.kind = "forceExit" => t.due <= now + ForceExitMs)

\* The process exited with status 1 although the connections had been
\* closed: the server never closed.
C19_Witness ==
    /\ proc = "exited1"
    /\ closing.server > 0
    /\ now >= StartTime + ForceExitMs

\* C20: every session in trackingSessions has at least one member; a session
\* appears only in a join-tracking step that makes the joining socket a
\* member, and disappears only in the disconnect step of its last member.
C20_SessionsNonEmpty ==
    /\ [](\A s \in DOMAIN trackingSessions : trackingSessions[s] # {})
    /\ [][\A s \in (DOMAIN trackingSessions') \ DOMAIN trackingSessions :
             /\ lastOp'.op = "join"
             /\ lastOp'.c \in trackingSessions'[s]]_vars
    /\ [][\A s \in (DOMAIN trackingSessions) \ DOMAIN trackingSessions' :
             /\ lastOp'.op = "disconnect"
             /\ trackingSessions[s] = {lastOp'.c}]_vars

\* A socket has just disconnected as the last member of its session: its
\* record is kept, its session is gone and another session is still there.
C20_Witness ==
    /\ lastOp.op = "disconnect"
    /\ MapHas(connectedUsers, lastOp.c)
    /\ ~MapHas(trackingSessions, connectedUsers[lastOp.c].sessionId)
    /\ \E s \in DOMAIN trackingSessions : trackingSessions[s] # {}

\* ------------------------------------------- throttle and rate windows
\* A location-update payload the handler would accept from a participant.
ValidLocationData(d) ==
    /\ d.defined
    /\ d.location # None => ~InvalidCoordinates(d.location[1])

\* C21: a location update with valid coordinates from a registered socket is
\* dropped silently only when that socket's last accepted location update is
\* less than 1000 ms old; a rejected update opens no throttle window.
C21_DroppedOnlyAfterAccepted ==
    [][\A c \in Conns : \A d \in LocInputs(c) :
          (/\ LocationUpdate(c, d)
           /\ MapHas(connectedUsers, c)
           /\ ValidLocationData(d)
           /\ out' = <<>>
           /\ connectedUsers' = connectedUsers) =>
              /\ lastAcceptedAt[c] # None
              /\ now - lastAcceptedAt[c][1] < locationUpdateThrottle]_vars

\* A location update of a participant was just dropped although its last
\* accepted update is at least 1000 ms old: the window was opened by an
\* update that was answered with an error.
C21_FailingCase ==
    \E c \in Conns :
        /\ lastOp = Op("location-update", c)
        /\ out = <<>>
        /\ MapHas(connectedUsers, c)
        /\ lastAcceptedAt[c] # None
        /\ now - lastAcceptedAt[c][1] >= locationUpdateThrottle
        /\ now - lastLocationUpdate[c] < locationUpdateThrottle

\* A send-message payload the handler would accept from a participant.
ValidMessageData(d) == d.defined /\ ~InvalidMessage(d.message)

\* C22: a send-message with valid text from a registered socket is answered
\* with RATE_LIMIT only when that socket's last accepted message is less
\* than 500 ms old; a rejected message opens no rate-limit window.
C22_LimitedOnlyAfterAccepted ==
    [][\A c \in Conns : \A d \in MessageInputs :
          (/\ SendMessage(c, d, MaxBufMsgs)
           /\ MapHas(connectedUsers, c)
           /\ ValidMessageData(d)
           /\ out' = <<ErrorEvent(c, "Message rate limit exceeded", "RATE_LIMIT")>>) =>
              /\ lastSentAt[c] # None
              /\ now - lastSentAt[c][1] < messageRateLimit]_vars

\* A participant's send-message was just refused with RATE_LIMIT although
\* the participant has not had a message accepted in the last 500 ms: the
\* window was opened by a message that was answered with another error.
C22_FailingCase ==
    \E c \in Conns :
        /\ lastOp = Op("send-message", c)
        /\ out = <<ErrorEvent(c, "Message rate limit exceeded", "RATE_LIMIT")>>
        /\ MapHas(connectedUsers, c)
        /\ lastSentAt[c] # None => now - lastSentAt[c][1] >= messageRateLimit
        /\ now - lastMessageTime[c] < messageRateLimit

\* ------------------------------------------------ typing timers, again
\* C23: at most one typing timer is pending for a socket, and it is the one
\* whose handle typingUsers holds for that socket.
C23_OneRecordedTypingTimer ==
    \A c \in Conns :
        /\ Cardinality(TypingTimers(timers, c)) <= 1
        /\ \A t \in TypingTimers(timers, c) :
              /\ MapHas(typingUsers, c)
              /\ typingUsers[c] = t.h

\* The cleanup has just removed the typingUsers entry of a stale socket
\* whose typing timer is still pending.
C23_FailingCase ==
    \E c \in Conns :
        /\ lastOp.op = "cleanup"
        /\ TypingTimers(timers, c) # {}
        /\ ~MapHas(typingUsers, c)
        /\ ~MapHas(connectedUsers, c)
        /\ \A t \in TypingTimers(timers, c) : now < t.due

\* No pending timer is overdue: the event loop has run every timer that
\* was due before now.
TimersOnTime == \A t \in timers : now <= t.due

\* C24: an accepted send-message broadcasts typing(false) and then the new
\* message, and leaves the sender not typing with no typing timer pending;
\* a rejected send-message changes neither the registry nor the typing
\* timers.  (Stated for the moments at which no timer is overdue.)
C24_MessageStopsTyping ==
    [][\A c \in Conns : \A d \in MessageInputs :
          (SendMessage(c, d, MaxMsgs) /\ TimersOnTime) =>
              IF msgCount' = msgCount + 1
              THEN /\ Len(out') = 2
                   /\ out'[1].ev = "user-typing"
                   /\ out'[1].data.isTyping = FALSE
                   /\ out'[2].ev = "new-message"
                   /\ ~connectedUsers'[c].isTyping
                   /\ ~MapHas(typingUsers', c)
                   /\ TypingTimers(timers', c) = {}
              ELSE /\ connectedUsers' = connectedUsers
                   /\ typingUsers' = typingUsers
                   /\ timers' = timers]_vars

\* A message of a participant was just accepted and a typing timer of the
\* sender is still pending: the timer of a typing-start made before the
\* cleanup removed the sender's first record.
C24_FailingCase ==
    \E c \in Conns :
        /\ lastOp = Op("send-message", c)
        /\ Len(out) = 2
        /\ out[2].ev = "new-message"
        /\ ~MapHas(typingUsers, c)
        /\ TypingTimers(timers, c) # {}
        /\ TimersOnTime

\* ------------------------------------------------- heartbeat, again
\* The pending ping timeouts of socket c.
PingTimeouts(ts, c) == {t \in ts : t.kind = "pingTimeout" /\ t.c = c}

\* C25: for a socket with a health record, a pong cancels the timeout of
\* every ping it answers before that timeout fired, leaving the socket
\* healthy and its reconnect count as it was; a timeout that fires marks the
\* socket unhealthy and adds exactly one to the reconnect count, once.
C25_PongCancelsTimeout ==
    /\ [](\A c \in Conns :
             conn[c] = "connected" =>
                 \A t \in PingTimeouts(timers, c) :
                     \E i \in 1..Len(pongListeners[c]) :
                         pongListeners[c][i].h = t.h)
    /\ [][\A c \in Conns :
             (Pong(c) /\ MapHas(connectionHealth, c) /\ pongListeners[c] # <<>>)
             => /\ PingTimeouts(timers', c) = {}
                /\ connectionHealth'[c].isHealthy
                /\ connectionHealth'[c].reconnectCount =
                       connectionHealth[c].reconnectCount]_vars
    /\ [][\A t \in timers :
             (PingTimeout(t) /\ MapHas(connectionHealth, t.c))
             => /\ t \notin timers'
                /\ ~connectionHealth'[t.c].isHealthy
                /\ connectionHealth'[t.c].reconnectCount =
                       connectionHealth[t.c].reconnectCount + 1]_vars

\* One ping timed out and a later ping was answered 500 ms after it was
\* sent: the socket is healthy again, one reconnect is counted and no
\* timeout is pending.
C25_Witness ==
    \E c \in Conns :
        /\ lastOp = Op("pong", c)
        /\ MapHas(connectionHealth, c)
        /\ connectionHealth[c].isHealthy
        /\ connectionHealth[c].reconnectCount = 1
        /\ connectionHealth[c].latency = Some(500)
        /\ PingTimeouts(timers, c) = {}

\* C25 as stated, for every ping: whenever the timeout of a ping fires, the
\* socket is marked unhealthy and its reconnect count grows by one.
C25_TimeoutAlwaysMarks ==
    [][\A t \in timers :
          PingTimeout(t)
          => /\ MapHas(connectionHealth', t.c)
             /\ ~connectionHealth'[t.c].isHealthy
             /\ MapHas(connectionHealth, t.c)
             /\ connectionHealth'[t.c].reconnectCount =
                    connectionHealth[t.c].reconnectCount + 1]_vars

\* ------------------------------------------ after-disconnect specification
\* Timers that outlive a disconnect.  The run starts with c1 and c2 joined
\* as "a" and "b" since the server's start, two clock steps before they
\* become stale: neither has answered any of the UnansweredPings pings sent
\* so far, each of which has timed out and left its pong listener behind.
\* Socket c1 types, joins again, disconnects and is pinged; timers fire, the
\* cleanup runs and the clock also reaches the due time of a pending timer.
UnansweredPings == (staleThreshold \div InitialPingInterval) - 1

GoneStart ==
    /\ now = StartTime + staleThreshold - 2 * TypStep
    /\ conn = [c \in Conns |-> "connected"]
    /\ connectionHealth =
          [c \in Conns |-> [connectedAt |-> StartTime, lastPing |-> StartTime,
                            pingCount |-> 0, reconnectCount |-> UnansweredPings,
                            isHealthy |-> FALSE, latency |-> None]]
    /\ connectedUsers =
          [c \in Conns |->
              [NewUser(c, IF c = "c1" THEN <<"a">> ELSE <<"b">>, "worker",
                       DefaultSession, None)
                  EXCEPT !.joinedAt = StartTime, !.lastSeen = StartTime]]
    /\ trackingSessions = MapSet(EmptyMap, DefaultSession, Conns)
    /\ typingUsers = EmptyMap
    /\ messageBuffer = EmptyMap
    /\ rooms = [c \in Conns |-> {Room(DefaultSession)}]
    /\ lastLocationUpdate = [c \in Conns |-> 0]
    /\ lastMessageTime = [c \in Conns |-> 0]
    /\ timers = {}
    /\ msgCount = 0
    /\ typingStarts = 0
    /\ sentTrail = [c \in Conns |-> <<>>]
    /\ lastAcceptedAt = [c \in Conns |-> None]
    /\ owed = [c \in Conns |-> <<>>]
    /\ lastSentAt = [c \in Conns |-> None]
    /\ statusSet = [c \in Conns |-> None]
    /\ gotLive = [c \in Conns |-> {}]
    /\ pongsReceived = [c \in Conns |-> 0]
    /\ pingIntervalTime = [c \in Conns |-> MinPingInterval]
    /\ pingInterval =
          [c \in Conns |->
              Some([due |-> StartTime + (UnansweredPings + 1) * InitialPingInterval,
                    period |-> InitialPingInterval])]
    /\ pongListeners =
          [c \in Conns |->
              [i \in 1..UnansweredPings |->
                  [startTime |-> StartTime + i * InitialPingInterval,
                   h |-> PingHandleAt(c, StartTime + i * InitialPingInterval)]]]
    /\ proc = "running"
    /\ closing = [io |-> <<>>, server |-> 0]

InitGone ==
    /\ GoneStart
    /\ out = <<>>
    /\ lastOp = Op("init", "")

GoneUntil == staleThreshold + MaxTypTicks * TypStep

NextGone ==
    \/ TypingStart("c1", MaxTypingBurst)
    \/ \E t \in timers : TypingExpire(t)
    \/ performCleanup
    \/ Join("c1", JoinData(Str(<<"a">>), "worker", None, None))
    \/ Disconnect("c1")
    \/ Ping("c1", GoneUntil)
    \/ \E t \in timers : PingTimeout(t)
    \/ Tick(TypStep, GoneUntil - 2 * TypStep)
    \/ AdvanceToTimer

SpecGone == InitGone /\ [][NextGone]_vars

\* The events in emissions es that are sent to socket c as a heartbeat ping
\* or that report the typing state of socket c.
AboutSocket(es, c) ==
    {i \in 1..Len(es) :
        \/ es[i].ev = "ping" /\ c \in es[i].to
        \/ es[i].ev = "user-typing" /\ es[i].data.userId = c}

\* C26: once a socket has disconnected it has no health record, and no step
\* emits a heartbeat ping to it or a typing event in its name, whatever
\* timers were pending when it disconnected.
C26_NothingAfterDisconnect ==
    /\ [](\A c \in Conns :
             conn[c] = "disconnected" => ~MapHas(connectionHealth, c))
    /\ [][\A c \in Conns :
             conn[c] = "disconnected" => AboutSocket(out', c) = {}]_vars

\* A typing timer of a disconnected socket has just fired and told another
\* socket of the room that the disconnected one stopped typing.
C26_FailingCase ==
    \E c \in Conns :
        /\ conn[c] = "disconnected"
        /\ lastOp = Op("typing-expire", c)
        /\ Len(out) = 1
        /\ out[1].ev = "user-typing"
        /\ out[1].data.userId = c
        /\ out[1].to # {}

\* C27: a call of gracefulShutdown sends the shutdown notice, with the
\* participants and sessions as they are at that moment, to every socket
\* that is connected, and closes none of them in that step; the process
\* exits with status 0 only when every connection has been closed and the
\* callback of server.close has then run.
C27_NoticeThenCloseThenExit ==
    /\ [][(Signal(MaxShutdownCalls) \/ \E t \in timers : RecoverExpire(t))
          => /\ out' = <<Emit("server-shutdown",
                              {c \in Conns : conn[c] = "connected"},
                              [users |-> connectedUsers,
                               sessions |-> trackingSessions])>>
             /\ conn' = conn]_vars
    /\ [](closing.server > 0 => \A c \in Conns : conn[c] # "connected")
    /\ [][(proc' = "exited0" /\ Alive)
          => /\ \A c \in Conns : conn[c] # "connected"
             /\ closing.server > 0
             /\ closing.io = closing'.io]_vars

\* The process has exited with status 0 after a shutdown that closed the
\* connection of a participant, whose record the notice carried.
C27_Witness ==
    /\ proc = "exited0"
    /\ lastOp = Op("server-closed", "")
    /\ \E c \in Conns : conn[c] = "disconnected" /\ MapHas(connectedUsers, c)
    /\ \A c \in Conns : conn[c] # "connected"

\* C28: a cleanup run that finds a reconnection buffer holding more than 100
\* messages leaves that buffer holding exactly its 50 most recent messages in
\* their original order; a buffer holding 100 or fewer messages is unchanged,
\* and no buffer is created or deleted by the run.
C28_TrimKeepsFiftyNewest ==
    [][performCleanup =>
          /\ DOMAIN messageBuffer' = DOMAIN messageBuffer
          /\ \A k \in DOMAIN messageBuffer :
                LET old == messageBuffer[k]
                    new == messageBuffer'[k]
                IN IF Len(old) > 100
                   THEN /\ Len(new) = 50
                        /\ \A i \in 1..50 : new[i] = old[Len(old) - 50 + i]
                   ELSE new = old]_vars

\* C28's case: a cleanup run has just trimmed c1's buffer of 101 messages to
\* the 50 newest, the messages numbered 52 to 101.
C28_Witness ==
    /\ lastOp.op = "cleanup"
    /\ "c1" \in DOMAIN messageBuffer
    /\ Len(messageBuffer["c1"]) = 50
    /\ messageBuffer["c1"][1].id = 52
    /\ messageBuffer["c1"][50].id = 101

\* A pending typing timer whose handle typingUsers does not hold for its
\* socket: its entry was removed without clearTimeout, which only the stale
\* sweep of performCleanup does.
SweptTypingTimer(t) ==
    /\ t \in timers
    /\ t.kind = "typing"
    /\ ~(MapHas(typingUsers, t.c) /\ typingUsers[t.c] = t.h)

\* C29: a stale sweep removes the participant record, the health record and
\* the typing-timer entry of exactly the sockets whose health record is more
\* than 10 minutes past its last pong; and a typing timer whose entry a
\* sweep removed changes no participant record and emits nothing when it
\* fires.
C29_SweepRemovesStaleForGood ==
    /\ [][performCleanup =>
             LET stale == {c \in DOMAIN connectionHealth :
                              now - connectionHealth[c].lastPing > 10 * 60 * 1000}
             IN /\ DOMAIN connectionHealth' = (DOMAIN connectionHealth) \ stale
                /\ DOMAIN connectedUsers' = (DOMAIN connectedUsers) \ stale
                /\ DOMAIN typingUsers' = (DOMAIN typingUsers) \ stale
                /\ \A c \in DOMAIN connectionHealth' :
                      connectionHealth'[c] = connectionHealth[c]
                /\ \A c \in DOMAIN connectedUsers' :
                      connectedUsers'[c] = connectedUsers[c]
                /\ \A c \in DOMAIN typingUsers' :
                      typingUsers'[c] = typingUsers[c]]_vars
    /\ [][\A t \in timers :
             (SweptTypingTimer(t) /\ TypingExpire(t)) =>
                 /\ connectedUsers' = connectedUsers
                 /\ out' = <<>>]_vars

\* C29's failing case: a typing timer of c1 has just fired, cleared the
\* typing flag and told the room so, while the timer that typingUsers held
\* for c1 was another one, still pending: the timer that fired is the one
\* whose entry the sweep removed before c1 joined and typed again.
C29_FailingCase ==
    /\ lastOp = Op("typing-expire", "c1")
    /\ TimersOnTime
    /\ MapHas(connectedUsers, "c1")
    /\ ~connectedUsers["c1"].isTyping
    /\ Len(out) = 1
    /\ out[1].ev = "user-typing"
    /\ out[1].data.isTyping = FALSE
    /\ \E t \in TypingTimers(timers, "c1") : now < t.due
    /\ ~MapHas(typingUsers, "c1")
    /\ ~MapHas(connectionHealth, "c1")

\* C30: an accepted location update changes only the participant's trail,
\* location, accuracy, speed, heading and last-seen; every other field of
\* the record, its name, role, session id, typing flag and status among
\* them, stays as it was, and no other record changes.
C30_LocationUpdateFrame ==
    [][\A c \in Conns :
          (lastOp' = Op("location-update", c) /\ Len(out') = 2) =>
              LET old == connectedUsers[c]
                  new == connectedUsers'[c]
              IN /\ new = [old EXCEPT !.trail = new.trail,
                                      !.location = new.location,
                                      !.accuracy = new.accuracy,
                                      !.speed = new.speed,
                                      !.heading = new.heading,
                                      !.lastSeen = new.lastSeen]
                 /\ \A k \in Conns \ {c} :
                       MapHas(connectedUsers, k) =>
                           connectedUsers'[k] = connectedUsers[k]]_vars

\* C30's failing case: a participant's location update was just accepted
\* and its record reads online, while the last status the participant set
\* with status-update since it joined was away.
C30_FailingCase ==
    \E c \in Conns :
        /\ lastOp = Op("location-update", c)
        /\ Len(out) = 2
        /\ out[2].ev = "user-updated"
        /\ out[2].data.status = "online"
        /\ statusSet[c] = Some("away")
        /\ connectedUsers[c].status = "online"
        /\ connectedUsers[c].location # None

\* C31: in every reachable state every socket that was accepted and has not
\* disconnected has a record in connectionHealth.
C31_LiveSocketHasHealth ==
    \A c \in Conns : conn[c] = "connected" => MapHas(connectionHealth, c)

\* C31's failing case: performCleanup has just run and c1, still connected
\* and with its heartbeat interval still set, has no health record.
C31_FailingCase ==
    /\ lastOp.op = "cleanup"
    /\ conn["c1"] = "connected"
    /\ pingInterval["c1"] # None
    /\ ~MapHas(connectionHealth, "c1")

\* C32: in every reachable state a participant record whose isTyping is true
\* has a typing timer pending for its socket.
C32_TypingFlagHasTimer ==
    \A c \in DOMAIN connectedUsers :
        connectedUsers[c].isTyping => TypingTimers(timers, c) # {}

\* C32's failing case: a socket has just disconnected while typing; its
\* record is retained for the grace period with isTyping true and no typing
\* timer is pending for it.
C32_FailingCase ==
    \E c \in Conns :
        /\ lastOp = Op("disconnect", c)
        /\ conn[c] = "disconnected"
        /\ MapHas(connectedUsers, c)
        /\ connectedUsers[c].isTyping
        /\ TypingTimers(timers, c) = {}
        /\ \E t \in timers : t.kind = "grace" /\ t.c = c

\* The events the hub sends to the room of a session.
SessionBroadcasts == {"new-message", "user-updated", "user-count"}

\* C33: in every reachable state a connected socket is in the room of at
\* most one session, the one its participant record names, and in no room
\* when it has no record; and a session broadcast made for the session of
\* the socket that caused it is sent only to sockets whose record names
\* that session.
C33_OneRoomPerSocket ==
    /\ [](\A c \in Conns :
             conn[c] = "connected" =>
                 rooms[c] \subseteq
                     (IF MapHas(connectedUsers, c)
                      THEN {Room(connectedUsers[c].sessionId)}
                      ELSE {}))
    /\ [][\A i \in 1..Len(out') :
             (out'[i].ev \in SessionBroadcasts /\ MapHas(connectedUsers', lastOp'.c)) =>
                 \A c \in out'[i].to :
                     /\ MapHas(connectedUsers', c)
                     /\ connectedUsers'[c].sessionId =
                            connectedUsers'[lastOp'.c].sessionId]_vars

\* C33's failing case: c2 has just joined the default session and the
\* session's user-count went to c1 as well, which is connected and whose
\* record names session s1 since it joined a second time.
C33_FailingCase ==
    /\ lastOp = Op("join", "c2")
    /\ conn["c1"] = "connected"
    /\ MapHas(connectedUsers, "c1")
    /\ MapHas(connectedUsers, "c2")
    /\ connectedUsers["c1"].sessionId = "s1"
    /\ connectedUsers["c2"].sessionId = DefaultSession
    /\ rooms["c1"] = {Room(DefaultSession), Room("s1")}
    /\ \E i \in 1..Len(out) : out[i].ev = "user-count" /\ "c1" \in out[i].to

\* The ids of the messages in a sequence of messages.
MessageIds(messages) == {messages[i].id : i \in 1..Len(messages)}

\* C34: no message that was sent to a socket as new-message is held in that
\* socket's reconnection buffer or sent to it again as buffered-messages.
C34_NoSecondDelivery ==
    /\ [](\A c \in DOMAIN messageBuffer :
             MessageIds(messageBuffer[c]) \cap gotLive[c] = {})
    /\ [][\A i \in 1..Len(out') : \A c \in Conns :
             (out'[i].ev = "buffered-messages" /\ c \in out'[i].to) =>
                 MessageIds(out'[i].data) \cap gotLive[c] = {}]_vars

\* C34's failing case: c1 has just joined and was sent buffered-messages
\* holding a message that it had already been sent as new-message.
C34_FailingCase ==
    /\ lastOp = Op("join", "c1")
    /\ conn["c1"] = "connected"
    /\ \E i \in 1..Len(out) :
          /\ out[i].ev = "buffered-messages"
          /\ out[i].to = {"c1"}
          /\ MessageIds(out[i].data) \cap gotLive["c1"] # {}

\* C35: a join with a valid name and an accepted role, sent by a socket
\* other than the one of a retained record of that trimmed name and session,
\* is answered with the duplicate error and changes no record; the grace
\* timer's callback leaves no record of the purged name and session behind;
\* and a valid join whose trimmed name no record of the session carries is
\* accepted.
C35_RetainedNameBlocksJoin ==
    /\ [][\A c2 \in Conns : \A d \in JoinInputs :
             (/\ Join(c2, d)
              /\ d.defined /\ ~InvalidName(d.name) /\ d.role \in JoinRoles) =>
                 IF \E c \in Conns \ {c2} :
                       /\ Retained(c)
                       /\ connectedUsers[c].name = Trim(d.name.chars)
                       /\ connectedUsers[c].sessionId = SessionOf(d.sessionId)
                 THEN /\ out' = <<ErrorEvent(c2, "User already joined the session", "")>>
                      /\ connectedUsers' = connectedUsers
                      /\ trackingSessions' = trackingSessions
                 ELSE (\A k \in DOMAIN connectedUsers :
                          ~(/\ connectedUsers[k].name = Trim(d.name.chars)
                            /\ connectedUsers[k].sessionId = SessionOf(d.sessionId)))
                      => /\ MapHas(connectedUsers', c2)
                         /\ connectedUsers'[c2].name = Trim(d.name.chars)
                         /\ connectedUsers'[c2].sessionId = SessionOf(d.sessionId)
                         /\ c2 \in trackingSessions'[SessionOf(d.sessionId)]]_vars
    /\ [][\A t \in timers :
             (GraceExpire(t) /\ Retained(t.c)) =>
                 \A k \in DOMAIN connectedUsers' :
                     ~(/\ connectedUsers'[k].name = connectedUsers[t.c].name
                       /\ connectedUsers'[k].sessionId = connectedUsers[t.c].sessionId)]_vars

\* C35's case: c2 has just been refused with the duplicate error while the
\* record of the disconnected c1 is retained, its grace timer pending, and
\* c2 has no record of its own.
C35_Witness ==
    /\ lastOp = Op("join", "c2")
    /\ out = <<ErrorEvent("c2", "User already joined the session", "")>>
    /\ Retained("c1")
    /\ \E t \in timers : t.kind = "grace" /\ t.c = "c1" /\ now < t.due
    /\ ~MapHas(connectedUsers, "c2")

\* C36: a pong of a socket with a health record, sent while a ping is
\* unanswered, adds exactly one to pingCount and adapts the ping interval
\* as one measured latency prescribes; pingCount never exceeds the number
\* of pongs the socket has sent.
C36_OnePongOneCount ==
    /\ [][\A c \in Conns :
             (/\ Pong(c)
              /\ MapHas(connectionHealth, c)
              /\ pongListeners[c] # <<>>) =>
                 /\ connectionHealth'[c].pingCount = connectionHealth[c].pingCount + 1
                 /\ \E i \in 1..Len(pongListeners[c]) :
                       pingIntervalTime'[c] =
                           AfterPong(pingIntervalTime[c],
                                     now - pongListeners[c][i].startTime)]_vars
    /\ [](\A c \in DOMAIN connectionHealth :
             connectionHealth[c].pingCount <= pongsReceived[c])

\* C36's failing case: c1 has sent one pong, after a ping that timed out and
\* a second ping, and its health record counts two.
C36_FailingCase ==
    /\ lastOp = Op("pong", "c1")
    /\ pongsReceived["c1"] = 1
    /\ MapHas(connectionHealth, "c1")
    /\ connectionHealth["c1"].pingCount = 2
    /\ connectionHealth["c1"].reconnectCount = 1

\* The grace timers pending for socket c.
GraceTimers(ts, c) == {t \in ts : t.kind = "grace" /\ t.c = c}

\* C37: a buffer entry is deleted only by a join of its socket and by the
\* grace timer of its socket's disconnect, and a disconnected socket cannot
\* join; so that every entry of a disconnected socket is eventually gone
\* for good, a disconnected socket without a pending grace timer has no
\* buffer entry, in every reachable state.
C37_NoEntryLeftBehind ==
    \A c \in Conns :
        (conn[c] = "disconnected" /\ GraceTimers(timers, c) = {}) =>
            ~MapHas(messageBuffer, c)

\* C37's failing case: a message of c2 was just accepted and put in a new
\* buffer entry for c1, which disconnected after a stale sweep had removed
\* its record, and for which no timer is pending.
C37_FailingCase ==
    /\ lastOp = Op("send-message", "c2")
    /\ conn["c1"] = "disconnected"
    /\ ~MapHas(connectedUsers, "c1")
    /\ \A t \in timers : t.c # "c1"
    /\ MapHas(messageBuffer, "c1")
    /\ Len(messageBuffer["c1"]) = 1
    /\ messageBuffer["c1"][1].id = msgCount
    /\ "c1" \in membersOf(trackingSessions, DefaultSession)
====
